---- MODULE Spec2Model ----
(***************************************************************************)
(* DAM desktop: the monitoring orchestrator (MonitoringService), the       *)
(* capture scheduler (ScreenCaptureService), the window classifier         *)
(* (AIWindowDetector), the content analyzer (AIContentAnalyzer) and the    *)
(* notification preferences (NotificationSettings).                        *)
(*                                                                         *)
(* The main process is one JavaScript event loop: code between two awaits  *)
(* runs atomically, so every action below is one such run: a call up to    *)
(* its first await, or the continuation of an await that has completed.    *)
(* Time is the wall clock read by Date.now(), in milliseconds; it moves in *)
(* steps of ClockStep, or of the capture interval in the long runs that    *)
(* let the notification throttle expire.                                   *)
(***************************************************************************)
EXTENDS Integers, Sequences, FiniteSets, TLC

\* ------------------------------------------------------------------ bounds

\* The clock reading at construction and the clock's granularity (both in
\* milliseconds), and the number of steps the clock takes in a monitoring
\* run; the number of capture intervals in a run long enough for the
\* notification throttle to expire.
ClockStart == 100000
ClockStep == 2500
MaxClockSteps == 3
MaxThrottleSteps == 6
\* Rows the monitoring_sessions table may receive.
MaxSessions == 3
\* start() calls suspended on the INSERT, stop() calls suspended on the UPDATE.
MaxStartCalls == 2
MaxStopCalls == 2
\* startCapture() calls suspended on the initial capture, timer-driven
\* captureScreen() calls in flight, interval timers ever created.
MaxStartCaptures == 2
MaxCaptures == 1
MaxTimers == 3
\* analyzeScreenCapture() calls suspended past the window gate.
MaxPipelines == 2
MaxFaultSteps == 2

\* --------------------------------------------------------- program constants

NULL == 0
analysisThrottleMs == 3000
notificationThrottleMs == 30000
captureIntervalMs == 5000

VARIABLES
  now,                  \* wall clock, ms
  isActive,             \* MonitoringService.isActive
  currentSessionId,     \* MonitoringService.currentSessionId (NULL or a row id)
  lastAnalysisTime,     \* MonitoringService.lastAnalysisTime, ms
  lastNotificationTime, \* MonitoringService.lastNotificationTime, ms
  sessions,             \* monitoring_sessions: row id -> end_time (NULL while open)
  startCalls,           \* start() calls awaiting startMonitoringSession's INSERT
  stopCalls,            \* stop() calls awaiting endMonitoringSession's UPDATE
  isCapturing,          \* ScreenCaptureService.isCapturing
  captureCallback,      \* ScreenCaptureService.captureCallback is non-null
  captureInterval,      \* ScreenCaptureService.captureInterval (NULL or a timer id)
  timers,               \* the event loop's armed interval timers: id -> due time, ms
  timersCreated,        \* interval timers created so far (the next id is one more)
  startCaptures,        \* startCapture() calls awaiting the initial captureScreen()
  captures,             \* timer-driven captureScreen() calls in flight
  pipelines,            \* analyzeScreenCapture() calls suspended on an await
  savedPrefs,           \* ConfigService's 'notificationPreferences' (saved fields)
  lastIndex,            \* lastIndex of the analyzer's matchers that carry the g flag
  lastEntry,            \* observation: the last call of analyzeScreenCapture
  prevDispatchAt,       \* observation: the dispatch before the last one, ms
  lastDispatchAt,       \* observation: the last dispatch to the policy, ms
  syncQueue,            \* DashboardSyncService.syncQueue (usage events, by id)
  alertQueue,           \* DashboardSyncService.alertQueue (security alerts, by id)
  syncs,                \* performSync() calls suspended on fetch(): their payloads
  delivered,            \* observation: the payloads the dashboard answered ok
  recorded,             \* observation: events and alerts recorded so far
  requested,            \* observation: showNotification() calls so far
  notificationQueue,    \* NotificationService.notificationQueue
  isShowingNotification,\* NotificationService.isShowingNotification
  notificationWindow,   \* NotificationService.notificationWindow (NULL or a window)
  windows,              \* the notification BrowserWindows that exist
  loading,              \* createNotificationWindow() calls suspended on loadURL()
  closedHandlers,       \* windows that carry the 'closed' handler
  timeouts,             \* NotificationService's armed timeouts and queued 'closed' events
  displayed,            \* observation: windows created, and what closed each
  call                  \* a call of a pure function: its arguments and result

lifeVars == <<isActive, currentSessionId, sessions, startCalls, stopCalls>>
captureVars == <<isCapturing, captureCallback, captureInterval, timers,
                 timersCreated, startCaptures, captures>>
pipeVars == <<lastAnalysisTime, lastNotificationTime, pipelines, lastIndex,
              lastEntry, prevDispatchAt, lastDispatchAt>>
syncVars == <<syncQueue, alertQueue, syncs, delivered, recorded>>
noteVars == <<requested, notificationQueue, isShowingNotification, notificationWindow,
              windows, loading, closedHandlers, timeouts, displayed>>
sinkVars == <<syncVars, noteVars>>
vars == <<now, lifeVars, captureVars, pipeVars, savedPrefs, sinkVars, call>>

DateNow == now

\* ------------------------------------------------------------ texts

(***************************************************************************)
(* A window title or an OCR text is a sequence of fragments (its words,    *)
(* in order).  A regular expression of the code is modelled by the set of  *)
(* marks it looks for: Marks(frag) are the patterns of the code's tables   *)
(* that match inside the fragment, FragLen(frag) its length in characters. *)
(***************************************************************************)
Fragments ==
  { "chrome", "terminal", "desktop", "news", "claude", "claude.ai", "gemini",
    "chatgpt", "help", "fix", "sk-48", "sk-46", "AKIA16", "123-45-6789",
    "sarah@company.com", "customer", "step-by-step", "example", "constraints",
    "prose", "api_key=value", "bearer token", "upper20", "excel", "code",
    "how", "4111-1111-1111-1111", "page491", "page488", "page450",
    "https://claude.ai" }

\* What the code's patterns find in a fragment (lower-cased where the code
\* lower-cases or uses the i flag).
Marks(frag) ==
  CASE frag = "claude.ai" -> {"claude.ai", "claude"}
    [] frag = "https://claude.ai" -> {"https://claude.ai", "claude.ai", "claude"}
    [] frag = "sk-48" -> {"sk-48+", "sk-20+"}       \* sk- and 48 alphanumerics
    [] frag = "sk-46" -> {"sk-20+"}                 \* sk- and 46 alphanumerics
    [] frag = "AKIA16" -> {"akia16", "upper20"}     \* AKIA and 16 of [0-9A-Z]
    [] frag = "123-45-6789" -> {"ssn"}
    [] frag = "4111-1111-1111-1111" -> {"creditCard"}
    [] frag = "sarah@company.com" -> {"email"}
    [] OTHER -> {frag}

FragLen(frag) ==
  CASE frag = "sk-48" -> 51
    [] frag = "sk-46" -> 49
    [] frag = "AKIA16" -> 20
    [] frag = "upper20" -> 20                       \* 20 of [A-Z0-9], not AKIA...
    [] frag = "api_key=value" -> 24                 \* api_key= and 16 of [a-zA-Z0-9_-]
    [] frag = "bearer token" -> 13                  \* Bearer and a 6-character token
    [] frag = "123-45-6789" -> 11
    [] frag = "4111-1111-1111-1111" -> 19
    [] frag = "page491" -> 491                      \* a page of plain words
    [] frag = "page488" -> 488
    [] frag = "page450" -> 450
    [] frag = "[API_KEY_REDACTED]" -> 18
    [] frag = "[OPENAI_KEY_REDACTED]" -> 21
    [] frag = "[SSN_REDACTED]" -> 14
    [] frag = "[CREDIT_CARD_REDACTED]" -> 22
    [] frag = "... [TRUNCATED]" -> 15
    [] frag \in {"sarah@company.com", "https://claude.ai"} -> 17
    [] frag = "prose" -> 60
    [] frag = "step-by-step" -> 12
    [] frag = "constraints" -> 11
    [] frag = "claude.ai" -> 9
    [] frag \in {"terminal", "customer"} -> 8
    [] frag \in {"desktop", "chatgpt", "example"} -> 7
    [] frag \in {"chrome", "claude", "gemini"} -> 6
    [] frag = "excel" -> 5
    [] frag \in {"help", "news", "code"} -> 4
    [] OTHER -> 3

RECURSIVE TextLen(_)
\* String.length of the fragments joined by single spaces.
TextLen(text) ==
  IF text = << >> THEN 0
  ELSE IF Len(text) = 1 THEN FragLen(text[1])
  ELSE FragLen(text[1]) + 1 + TextLen(Tail(text))

\* String.includes(mark) / RegExp.test for a pattern without the g flag.
Includes(text, marks) ==
  \E i \in DOMAIN text : Marks(text[i]) \cap marks # {}

\* `${a} ${b}`
Concat(a, b) == a \o b

\* ------------------------------------------------------ AIWindowDetector

NotAIWindow == [isAIWindow |-> FALSE, platform |-> ""]

\* aiPlatformUrls: each pattern needs a scheme (https?://) before the host.
aiPlatformUrls ==
  << [marks |-> {"https://chatgpt.com"}, platform |-> "ChatGPT"],
     [marks |-> {"https://chat.openai.com"}, platform |-> "ChatGPT"],
     [marks |-> {"https://claude.ai"}, platform |-> "Claude"],
     [marks |-> {"https://claude.anthropic.com"}, platform |-> "Claude"],
     [marks |-> {"https://gemini.google.com"}, platform |-> "Gemini"],
     [marks |-> {"https://bard.google.com"}, platform |-> "Gemini"],
     [marks |-> {"https://perplexity.ai"}, platform |-> "Perplexity"] >>

\* terminalAIPatterns: the tool's name followed by white space.
terminalAIPatterns ==
  << [tool |-> "claude", platform |-> "Claude CLI"],
     [tool |-> "gemini", platform |-> "Gemini CLI"],
     [tool |-> "openai", platform |-> "OpenAI CLI"],
     [tool |-> "chatgpt", platform |-> "ChatGPT CLI"] >>

platformNames ==
  << [marks |-> {"chatgpt"}, platform |-> "ChatGPT"],
     [marks |-> {"claude"}, platform |-> "Claude"],
     [marks |-> {"gemini"}, platform |-> "Gemini"],
     [marks |-> {"perplexity"}, platform |-> "Perplexity"] >>

\* The first entry of a pattern table that matches, or 0.
FirstMatch(table, text) ==
  IF \E i \in DOMAIN table : Includes(text, table[i].marks)
  THEN CHOOSE i \in DOMAIN table :
         /\ Includes(text, table[i].marks)
         /\ \A j \in 1..(i - 1) : ~Includes(text, table[j].marks)
  ELSE 0

\* A fragment followed by another, as /a.*b/ and /a\s*b/ need.
Follows(text, a, b) ==
  \E i, j \in DOMAIN text : i < j /\ a \in Marks(text[i]) /\ b \in Marks(text[j])

checkBrowserAIPlatform(windowTitle, extractedText) ==
  LET isBrowser == Includes(windowTitle, {"chrome", "firefox", "safari", "edge", "brave"})
      combinedText == Concat(windowTitle, extractedText)
      u == FirstMatch(aiPlatformUrls, combinedText)
      n == FirstMatch(platformNames, windowTitle)
  IN IF ~isBrowser THEN NotAIWindow
     ELSE IF u # 0 THEN [isAIWindow |-> TRUE, platform |-> aiPlatformUrls[u].platform]
     ELSE IF n # 0 THEN [isAIWindow |-> TRUE, platform |-> platformNames[n].platform]
     ELSE NotAIWindow

\* A CLI pattern needs the tool's name followed by white space: a fragment
\* that is the tool's name and is not the text's last one.
checkTerminalAI(windowTitle, extractedText) ==
  LET isTerminal == Includes(windowTitle, {"terminal", "iterm", "console", "powershell", "cmd"})
      cli(i) == \E k \in 1..(Len(extractedText) - 1) :
                   extractedText[k] = terminalAIPatterns[i].tool
      hit == {i \in DOMAIN terminalAIPatterns : cli(i)}
  IN IF ~isTerminal THEN NotAIWindow
     ELSE IF hit # {}
       THEN [isAIWindow |-> TRUE,
             platform |-> terminalAIPatterns[CHOOSE i \in hit : \A j \in hit : i <= j].platform]
     ELSE NotAIWindow

checkDesktopAIApp(windowTitle) ==
  IF Follows(windowTitle, "claude", "desktop") \/ Follows(windowTitle, "claude", "app")
    THEN [isAIWindow |-> TRUE, platform |-> "Claude Desktop"]
  ELSE IF Follows(windowTitle, "chatgpt", "desktop") \/ Follows(windowTitle, "openai", "app")
    THEN [isAIWindow |-> TRUE, platform |-> "ChatGPT Desktop"]
  ELSE IF Follows(windowTitle, "gemini", "desktop") \/ Follows(windowTitle, "gemini", "app")
    THEN [isAIWindow |-> TRUE, platform |-> "Gemini Desktop"]
  ELSE NotAIWindow

detectAIWindowMutant(windowTitle, extractedText) ==
  LET browserMatch == checkBrowserAIPlatform(windowTitle, extractedText)
      terminalMatch == checkTerminalAI(windowTitle, extractedText)
      desktopMatch == checkDesktopAIApp(windowTitle)
  IN IF browserMatch.isAIWindow THEN browserMatch
     ELSE IF desktopMatch.isAIWindow THEN desktopMatch
     ELSE IF terminalMatch.isAIWindow THEN terminalMatch
     ELSE NotAIWindow

detectAIWindow(windowTitle, extractedText) ==
  LET browserMatch == checkBrowserAIPlatform(windowTitle, extractedText)
      terminalMatch == checkTerminalAI(windowTitle, extractedText)
      desktopMatch == checkDesktopAIApp(windowTitle)
  IN IF browserMatch.isAIWindow THEN browserMatch
     ELSE IF terminalMatch.isAIWindow THEN terminalMatch
     ELSE IF desktopMatch.isAIWindow THEN desktopMatch
     ELSE NotAIWindow

shouldShowNotificationMutant(aiWindowInfo, analysisResult, draw33, draw20) ==
  IF ~aiWindowInfo.isAIWindow THEN FALSE
  ELSE IF analysisResult.riskLevel \in {"critical", "high"} THEN TRUE
  ELSE IF analysisResult.promptQuality = "poor" THEN draw33
  ELSE IF analysisResult.sensitiveDataDetected THEN TRUE
  ELSE IF analysisResult.learningOpportunity # "none"
          /\ analysisResult.promptQuality = "fair" THEN draw20
  ELSE FALSE

\* shouldShowNotification; draw33 and draw20 are the outcomes of
\* Math.random() < 0.33 and Math.random() < 0.2.
shouldShowNotification(aiWindowInfo, analysisResult, draw33, draw20) ==
  IF ~aiWindowInfo.isAIWindow THEN FALSE
  ELSE IF analysisResult.riskLevel \in {"critical", "high"} THEN TRUE
  ELSE IF analysisResult.sensitiveDataDetected THEN TRUE
  ELSE IF analysisResult.promptQuality = "poor" THEN draw33
  ELSE IF analysisResult.learningOpportunity # "none"
          /\ analysisResult.promptQuality = "fair" THEN draw20
  ELSE FALSE

\* ----------------------------------------------------- AIContentAnalyzer

\* Object.entries(sensitivePatterns), in the table's order.
sensitiveTypes ==
  << "ssn", "creditCard", "email", "phone", "apiKey", "apiKeyGeneral",
     "openaiKey", "awsKey", "password", "financialData", "customerData" >>

\* The marks each pattern of sensitivePatterns matches.
sensitivePatterns(type) ==
  CASE type = "ssn" -> {"ssn"}
    [] type = "creditCard" -> {"creditCard"}
    [] type = "email" -> {"email"}
    [] type = "phone" -> {"phone"}
    [] type = "apiKey" -> {"sk-48+", "akia16", "bearer token"}
    [] type = "apiKeyGeneral" -> {"api_key=value"}
    [] type = "openaiKey" -> {"sk-20+"}
    [] type = "awsKey" -> {"akia16", "upper20"}
    [] type = "password" -> {"password=value"}
    [] type = "financialData" -> {"$amount", "revenue", "profit", "salary", "income"}
    [] OTHER -> {"customer", "client", "user"}

\* The patterns written with the g flag: test() starts at lastIndex.
globalPatterns == {"apiKey", "openaiKey", "awsKey"}

NoLastIndex == [t \in globalPatterns |-> 0]

\* RegExp.prototype.test for a pattern with the g flag: the first match that
\* starts after lastIndex (fragment offsets stand for character offsets);
\* 0 when there is none.
NextMatch(text, marks, from) ==
  IF \E i \in DOMAIN text : i > from /\ Marks(text[i]) \cap marks # {}
  THEN CHOOSE i \in DOMAIN text :
         /\ i > from /\ Marks(text[i]) \cap marks # {}
         /\ \A j \in (from + 1)..(i - 1) : Marks(text[j]) \cap marks = {}
  ELSE 0

PatternTest(type, text, li) ==
  IF type \in globalPatterns
  THEN NextMatch(text, sensitivePatterns(type), li[type]) # 0
  ELSE Includes(text, sensitivePatterns(type))

\* analyzeSensitiveData: the types whose pattern tests true, in table order.
analyzeSensitiveData(text, li) ==
  LET types == SelectSeq(sensitiveTypes, LAMBDA t : PatternTest(t, text, li))
  IN [detected |-> Len(types) > 0, types |-> types]

\* lastIndex of the g-flag patterns after analyzeSensitiveData's tests: the
\* end of the match, or 0 after a failed test.
LastIndexAfterTests(text, li) ==
  [t \in globalPatterns |-> NextMatch(text, sensitivePatterns(t), li[t])]

aiToolPatterns ==
  << [tool |-> "chatgpt", marks |-> {"chat.openai.com", "chatgpt"}],
     [tool |-> "claude", marks |-> {"claude.ai", "anthropic"}],
     [tool |-> "gemini", marks |-> {"gemini.google", "bard"}],
     [tool |-> "copilot", marks |-> {"copilot"}],
     [tool |-> "midjourney", marks |-> {"midjourney"}],
     [tool |-> "perplexity", marks |-> {"perplexity.ai"}] >>

\* detectAITool: the first tool whose pattern matches title + content; "" for null.
detectAITool(windowName, content) ==
  LET t == FirstMatch(aiToolPatterns, Concat(windowName, content))
  IN IF t # 0 THEN aiToolPatterns[t].tool ELSE ""

promptQualityExcellent ==
  << {"role play", "act as", "perspective", "persona"},
     {"constraints", "requirements", "specifications"},
     {"format as", "structure like", "output should"},
     {"avoid", "don't", "exclude", "without"} >>

promptQualityGood ==
  << {"context", "background", "specifically", "example", "format", "style"},
     {"step-by-step", "detailed", "comprehensive"},
     {"please explain", "can you help with"} >>

\* promptQualityIndicators.poor: the whole text is one vague word, or has at
\* most 10 characters.
PoorIndicator(text) ==
  \/ Len(text) = 1 /\ text[1] \in {"help", "fix", "do", "make", "create"}
  \/ TextLen(text) <= 10
  \/ Len(text) = 1 /\ text[1] \in {"what", "how", "why", "when", "where"}

analyzePromptQualityMutant(text) ==
  LET goodIndicators ==
        Cardinality({i \in DOMAIN promptQualityGood : Includes(text, promptQualityGood[i])})
  IN IF \E i \in DOMAIN promptQualityExcellent : Includes(text, promptQualityExcellent[i])
       THEN "excellent"
     ELSE IF PoorIndicator(text) THEN "poor"
     ELSE IF goodIndicators >= 2 THEN "good"
     ELSE IF goodIndicators = 1 THEN "fair"
     ELSE IF TextLen(text) > 50 THEN "fair"
     ELSE "poor"

analyzePromptQuality(text) ==
  LET goodIndicators ==
        Cardinality({i \in DOMAIN promptQualityGood : Includes(text, promptQualityGood[i])})
  IN IF \E i \in DOMAIN promptQualityExcellent : Includes(text, promptQualityExcellent[i])
       THEN "excellent"
     ELSE IF goodIndicators >= 2 THEN "good"
     ELSE IF goodIndicators = 1 THEN "fair"
     ELSE IF PoorIndicator(text) THEN "poor"
     ELSE IF TextLen(text) > 50 THEN "fair"
     ELSE "poor"

SeqHas(seq, set) == \E i \in DOMAIN seq : seq[i] \in set

calculateRiskLevelMutant(hasSensitiveData, types, aiToolDetected) ==
  IF aiToolDetected = "" THEN "low"
  ELSE IF hasSensitiveData
    THEN IF SeqHas(types, {"financialData", "customerData", "creditCard"}) THEN "high"
         ELSE IF SeqHas(types, {"apiKey", "password", "ssn"}) THEN "critical"
         ELSE "medium"
  ELSE "low"

calculateRiskLevel(hasSensitiveData, types, aiToolDetected) ==
  IF aiToolDetected = "" THEN "low"
  ELSE IF hasSensitiveData
    THEN IF SeqHas(types, {"apiKey", "password", "ssn"}) THEN "critical"
         ELSE IF SeqHas(types, {"financialData", "customerData", "creditCard"}) THEN "high"
         ELSE "medium"
  ELSE "low"

generateSuggestionsMutant(aiTool, sensitiveData, promptQuality, content) ==
  (IF promptQuality = "poor"
     THEN << [type |-> "quality", priority |-> "high", improvedPrompt |-> TRUE] >>
     ELSE << >>)
  \o (IF sensitiveData.detected /\ aiTool # ""
        THEN << [type |-> "security", priority |-> "high", improvedPrompt |-> FALSE],
                [type |-> "alternative", priority |-> "medium", improvedPrompt |-> FALSE] >>
        ELSE << >>)
  \o (IF Includes(content, {"spreadsheet", "excel", "csv"})
        THEN << [type |-> "efficiency", priority |-> "low", improvedPrompt |-> FALSE] >>
        ELSE << >>)

identifyLearningOpportunityMutant(aiTool, promptQuality, sensitiveData, content) ==
  IF promptQuality \in {"poor", "fair"} THEN "prompt_improvement"
  ELSE IF sensitiveData.detected /\ aiTool # "" THEN "security_risk"
  ELSE IF Includes(content, {"code"}) THEN "tool_suggestion"
  ELSE "none"

\* generateSuggestions: the suggestions pushed, in order.  Every quality
\* suggestion carries a non-empty improvedPrompt (generateImprovedPrompt
\* returns a non-empty string on each branch).
generateSuggestions(aiTool, sensitiveData, promptQuality, content) ==
  (IF sensitiveData.detected /\ aiTool # ""
     THEN << [type |-> "security", priority |-> "high", improvedPrompt |-> FALSE],
             [type |-> "alternative", priority |-> "medium", improvedPrompt |-> FALSE] >>
     ELSE << >>)
  \o (IF promptQuality = "poor"
        THEN << [type |-> "quality", priority |-> "high", improvedPrompt |-> TRUE] >>
      ELSE IF promptQuality = "fair"
        THEN << [type |-> "quality", priority |-> "medium", improvedPrompt |-> TRUE] >>
      ELSE << >>)
  \o (IF Includes(content, {"spreadsheet", "excel", "csv"})
        THEN << [type |-> "efficiency", priority |-> "low", improvedPrompt |-> FALSE] >>
        ELSE << >>)

\* identifyLearningOpportunity: the opportunity's type, "none" for null.
identifyLearningOpportunity(aiTool, promptQuality, sensitiveData, content) ==
  IF sensitiveData.detected /\ aiTool # "" THEN "security_risk"
  ELSE IF promptQuality \in {"poor", "fair"} THEN "prompt_improvement"
  ELSE IF Includes(content, {"code"}) /\ aiTool = "chatgpt" THEN "tool_suggestion"
  ELSE "none"

analyzeContentMutant(windowName, text, li) ==
  LET aiToolDetected == detectAITool(windowName, text)
      sensitive == analyzeSensitiveData(text, li)
      promptQuality == analyzePromptQuality(text)
  IN [ riskLevel |-> calculateRiskLevel(sensitive.detected, sensitive.types, aiToolDetected),
       sensitiveDataDetected |-> sensitive.detected,
       sensitiveDataTypes |-> sensitive.types,
       aiToolDetected |-> aiToolDetected,
       promptQuality |-> promptQuality,
       suggestions |-> generateSuggestions(aiToolDetected, sensitive, promptQuality, text),
       learningOpportunity |->
         identifyLearningOpportunity(aiToolDetected, promptQuality, sensitive, text) ]

\* analyzeContent's result for a capture of `windowName` with text `text`,
\* the g-flag patterns standing at `li`.
analyzeContent(windowName, text, li) ==
  LET aiToolDetected == detectAITool(windowName, text)
      sensitive == analyzeSensitiveData(text, li)
      promptQuality == IF aiToolDetected # "" THEN analyzePromptQuality(text) ELSE "good"
  IN [ riskLevel |-> calculateRiskLevel(sensitive.detected, sensitive.types, aiToolDetected),
       sensitiveDataDetected |-> sensitive.detected,
       sensitiveDataTypes |-> sensitive.types,
       aiToolDetected |-> aiToolDetected,
       promptQuality |-> promptQuality,
       suggestions |-> generateSuggestions(aiToolDetected, sensitive, promptQuality, text),
       learningOpportunity |->
         identifyLearningOpportunity(aiToolDetected, promptQuality, sensitive, text) ]

\* lastIndex of the g-flag patterns when analyzeContent returns: after the
\* tests, syncToEnterpriseDashboard sanitizes the text for a security alert
\* (String.replace with apiKey and openaiKey leaves their lastIndex at 0).
LastIndexAfterAnalysis(windowName, text, li) ==
  LET a == analyzeContent(windowName, text, li)
      tested == LastIndexAfterTests(text, li)
  IN IF a.riskLevel \in {"high", "critical"} \/ a.sensitiveDataDetected
       THEN [tested EXCEPT !["apiKey"] = 0, !["openaiKey"] = 0]
       ELSE tested

NoAnalysis ==
  [ riskLevel |-> "low", sensitiveDataDetected |-> FALSE, sensitiveDataTypes |-> << >>,
    aiToolDetected |-> "", promptQuality |-> "good", suggestions |-> << >>,
    learningOpportunity |-> "none" ]

\* String.replace(pattern, token): every match is replaced for a pattern
\* with the g flag, the first match only for a pattern without it.
Replace(text, type, token) ==
  LET matches(i) == Marks(text[i]) \cap sensitivePatterns(type) # {}
  IN [ i \in DOMAIN text |->
         IF matches(i) /\ (type \in globalPatterns \/ \A j \in 1..(i - 1) : ~matches(j))
           THEN token ELSE text[i] ]

maxAlertContentLength == 500

\* The four replacements of sanitizeContentForAlert, in its order.
Redacted(content) ==
  Replace(Replace(Replace(Replace(content,
    "apiKey", "[API_KEY_REDACTED]"),
    "openaiKey", "[OPENAI_KEY_REDACTED]"),
    "ssn", "[SSN_REDACTED]"),
    "creditCard", "[CREDIT_CARD_REDACTED]")

sanitizeContentForAlertMutant(content) ==
  IF TextLen(content) > maxAlertContentLength
    THEN [ text |-> Redacted(content), kept |-> maxAlertContentLength,
           marker |-> "... [TRUNCATED]" ]
    ELSE [text |-> Redacted(content), kept |-> TextLen(Redacted(content)), marker |-> ""]

\* sanitizeContentForAlert: the replacements, then the cut.  The string
\* returned is the first `kept` characters of `text` followed by `marker`.
sanitizeContentForAlert(content) ==
  LET sanitized == Redacted(content)
  IN IF TextLen(sanitized) > maxAlertContentLength
       THEN [text |-> sanitized, kept |-> maxAlertContentLength, marker |-> "... [TRUNCATED]"]
       ELSE [text |-> sanitized, kept |-> TextLen(sanitized), marker |-> ""]

\* syncToEnterpriseDashboard: the usage event and the security alert handed
\* to DashboardSyncService, which queues them for transmission when the
\* enterprise settings are configured and drops them otherwise.  Of the
\* event's fields, those derived from the text.
syncToEnterpriseDashboard(result, extractedText, enterprise) ==
  [ syncQueue |->
      IF enterprise
        THEN << [ aiTool |-> result.aiToolDetected,
                  riskLevel |-> result.riskLevel,
                  promptLength |-> TextLen(extractedText),
                  sensitiveDataDetected |-> result.sensitiveDataDetected,
                  complianceFlags |-> result.sensitiveDataTypes ] >>
        ELSE << >>,
    alertQueue |->
      IF /\ enterprise
         /\ \/ result.riskLevel \in {"high", "critical"}
            \/ result.sensitiveDataDetected
        THEN << [ alertType |-> IF SeqHas(result.sensitiveDataTypes, {"apiKey"})
                                  THEN "api_key_exposure" ELSE "sensitive_data",
                  severity |-> result.riskLevel,
                  aiTool |-> result.aiToolDetected,
                  content |-> sanitizeContentForAlert(extractedText) ] >>
        ELSE << >> ]

\* -------------------------------------------------- NotificationSettings

defaultSettingsMutant ==
  [ enabled |-> TRUE, criticalAlerts |-> TRUE, securityWarnings |-> TRUE,
    promptSuggestions |-> TRUE, learningTips |-> FALSE, frequency |-> "minimal",
    soundEnabled |-> FALSE, position |-> "bottom-right" ]

defaultSettings ==
  [ enabled |-> TRUE, criticalAlerts |-> TRUE, securityWarnings |-> TRUE,
    promptSuggestions |-> FALSE, learningTips |-> FALSE, frequency |-> "minimal",
    soundEnabled |-> FALSE, position |-> "bottom-right" ]

\* ConfigService holds nothing under 'notificationPreferences'.
NothingSaved == [k \in {} |-> FALSE]

SpreadMutant(a, b) ==
  [k \in DOMAIN a \cup DOMAIN b |-> IF k \in DOMAIN a THEN a[k] ELSE b[k]]

\* { ...a, ...b }
Spread(a, b) ==
  [k \in DOMAIN a \cup DOMAIN b |-> IF k \in DOMAIN b THEN b[k] ELSE a[k]]

getPreferences == Spread(defaultSettings, savedPrefs)

\* getFrequencyMultiplier, in hundredths.
getFrequencyMultiplier ==
  CASE getPreferences.frequency = "all" -> 100
    [] getPreferences.frequency = "occasional" -> 30
    [] OTHER -> 10

\* The partial preferences the settings screen saves in this model.
PreferenceUpdates == { [enabled |-> FALSE], [enabled |-> TRUE] }

\* savePreferences(preferences)
savePreferences(preferences) ==
  /\ savedPrefs' = Spread(getPreferences, preferences)
  /\ savedPrefs' # savedPrefs
  /\ UNCHANGED <<now, lifeVars, captureVars, pipeVars, sinkVars, call>>

\* ------------------------------------------------- ScreenCaptureService

ArmedTimers == DOMAIN timers

\* stopCapture(): the assignments it makes to the scheduler's state.
stopCapture ==
  IF ~isCapturing
    THEN UNCHANGED <<isCapturing, captureCallback, captureInterval, timers>>
    ELSE /\ timers' = [t \in ArmedTimers \ {captureInterval} |-> timers[t]]
         /\ captureInterval' = NULL
         /\ isCapturing' = FALSE
         /\ captureCallback' = FALSE

\* startCapture() up to its await of the initial captureScreen().
startCapture ==
  IF isCapturing
    THEN UNCHANGED <<isCapturing, captureCallback, startCaptures>>
    ELSE /\ isCapturing' = TRUE
         /\ captureCallback' = TRUE
         /\ startCaptures' = startCaptures + 1

\* ---------------------------------------------------- MonitoringService

\* The last call of analyzeScreenCapture (an observation, not program
\* state): its entry point ("tick" from the capture callback, "manual" from
\* triggerAnalysis) and how far it went: "throttled", "notAI" (stopped at
\* the window gate) or "ocr" (went on to OCR).
NoEntry == [src |-> "none", outcome |-> "none"]

RemoveAt(seq, i) == SubSeq(seq, 1, i - 1) \o SubSeq(seq, i + 1, Len(seq))

\* Window titles the capture provider reports, and texts OCR returns.
Titles ==
  { <<"chrome", "claude.ai">>, <<"claude", "desktop">>, <<"terminal">> }

OcrTexts ==
  { << >>, <<"help">>, <<"sarah@company.com">>, <<"123-45-6789">> }

\* Outcomes of Math.random(), in hundredths.
RandomDraws == {2, 7, 20, 60}

ThrottleSkipsMutant(nowMs) == nowMs - lastAnalysisTime < 1000

\* The analysis throttle: true when the call is to be skipped.
ThrottleSkips(nowMs) == nowMs - lastAnalysisTime < analysisThrottleMs

PassesWindowGateMutant(aiWindowInfo) == TRUE

\* The window gate: the capture goes on to OCR.
PassesWindowGate(aiWindowInfo) == aiWindowInfo.isAIWindow

canShowNotificationMutant ==
  DateNow - lastNotificationTime >= notificationThrottleMs

canShowNotification ==
  IF DateNow - lastNotificationTime < notificationThrottleMs THEN FALSE
  ELSE getPreferences.enabled

\* handleAnalysisResults: the notification it hands to showNotification
\* ("none" when no guard holds); r1 and r2 are its two Math.random() draws.
handleAnalysisResults(analysis, r1, r2) ==
  LET prefs == getPreferences
      frequencyMultiplier == getFrequencyMultiplier
      promptSuggestions == SelectSeq(analysis.suggestions, LAMBDA x : x.type = "quality")
  IN IF analysis.riskLevel = "critical" /\ prefs.criticalAlerts THEN "critical_alert"
     ELSE IF analysis.riskLevel = "high" /\ prefs.securityWarnings THEN "security_warning"
     ELSE IF /\ prefs.promptSuggestions /\ analysis.promptQuality = "poor"
             /\ r1 < frequencyMultiplier
             /\ Len(promptSuggestions) > 0 /\ promptSuggestions[1].improvedPrompt
       THEN "prompt_tip"
     ELSE IF /\ prefs.learningTips /\ analysis.learningOpportunity # "none"
             /\ r2 * 2 < frequencyMultiplier
       THEN "learning_tip"
     ELSE "none"

dispatchBlocksMutant(analysis, r1, r2) ==
  LET prefs == getPreferences
      frequencyMultiplier == getFrequencyMultiplier
      promptSuggestions == SelectSeq(analysis.suggestions, LAMBDA x : x.type = "quality")
  IN << [ shows |-> "critical_alert", returns |-> FALSE,
          guard |-> analysis.riskLevel = "critical" /\ prefs.criticalAlerts ],
        [ shows |-> "security_warning", returns |-> TRUE,
          guard |-> analysis.riskLevel = "high" /\ prefs.securityWarnings ],
        [ shows |-> "prompt_tip", returns |-> TRUE,
          guard |-> /\ prefs.promptSuggestions /\ analysis.promptQuality = "poor"
                    /\ r1 < frequencyMultiplier
                    /\ Len(promptSuggestions) > 0 /\ promptSuggestions[1].improvedPrompt ],
        [ shows |-> "learning_tip", returns |-> FALSE,
          guard |-> /\ prefs.learningTips /\ analysis.learningOpportunity # "none"
                    /\ r2 * 2 < frequencyMultiplier ] >>

\* handleAnalysisResults as its four blocks, in order: the notification a
\* block hands to showNotification when its guard holds, and whether the
\* block then returns.
dispatchBlocks(analysis, r1, r2) ==
  LET prefs == getPreferences
      frequencyMultiplier == getFrequencyMultiplier
      promptSuggestions == SelectSeq(analysis.suggestions, LAMBDA x : x.type = "quality")
  IN << [ shows |-> "critical_alert", returns |-> TRUE,
          guard |-> analysis.riskLevel = "critical" /\ prefs.criticalAlerts ],
        [ shows |-> "security_warning", returns |-> TRUE,
          guard |-> analysis.riskLevel = "high" /\ prefs.securityWarnings ],
        [ shows |-> "prompt_tip", returns |-> TRUE,
          guard |-> /\ prefs.promptSuggestions /\ analysis.promptQuality = "poor"
                    /\ r1 < frequencyMultiplier
                    /\ Len(promptSuggestions) > 0 /\ promptSuggestions[1].improvedPrompt ],
        [ shows |-> "learning_tip", returns |-> FALSE,
          guard |-> /\ prefs.learningTips /\ analysis.learningOpportunity # "none"
                    /\ r2 * 2 < frequencyMultiplier ] >>

RECURSIVE RunBlocks(_, _)
\* The calls of showNotification made from block k on.
RunBlocks(blocks, k) ==
  IF k > Len(blocks) THEN << >>
  ELSE IF blocks[k].guard
    THEN <<blocks[k].shows>>
           \o (IF blocks[k].returns THEN << >> ELSE RunBlocks(blocks, k + 1))
  ELSE RunBlocks(blocks, k + 1)

\* The notifications one call of handleAnalysisResults hands to
\* showNotification, in order.
showNotificationCalls(analysis, r1, r2) ==
  RunBlocks(dispatchBlocks(analysis, r1, r2), 1)

analyzeScreenCaptureMutant(title, src) ==
  LET skip == ThrottleSkips(DateNow)
      aiWindowInfo == detectAIWindow(title, <<"claude", "help">>)
      goesOn == ~skip /\ PassesWindowGate(aiWindowInfo)
  IN /\ Len(pipelines) < MaxPipelines
     /\ lastAnalysisTime' = IF skip THEN lastAnalysisTime ELSE DateNow
     /\ pipelines' =
          IF goesOn
            THEN Append(pipelines, [src |-> src, title |-> title, stage |-> "ocr",
                                    analysis |-> NoAnalysis])
            ELSE pipelines
     /\ lastEntry' = [src |-> src,
                      outcome |-> IF skip THEN "throttled"
                                  ELSE IF goesOn THEN "ocr" ELSE "notAI"]
     /\ UNCHANGED <<lastNotificationTime, lastIndex, prevDispatchAt, lastDispatchAt>>

\* analyzeScreenCapture(capture) up to its first await: the throttle, the
\* window gate, and the call of OCR.
analyzeScreenCapture(title, src) ==
  LET skip == ThrottleSkips(DateNow)
      aiWindowInfo == detectAIWindow(title, << >>)
      goesOn == ~skip /\ PassesWindowGate(aiWindowInfo)
  IN /\ Len(pipelines) < MaxPipelines
     /\ lastAnalysisTime' = IF skip THEN lastAnalysisTime ELSE DateNow
     /\ pipelines' =
          IF goesOn
            THEN Append(pipelines, [src |-> src, title |-> title, stage |-> "ocr",
                                    analysis |-> NoAnalysis])
            ELSE pipelines
     /\ lastEntry' = [src |-> src,
                      outcome |-> IF skip THEN "throttled"
                                  ELSE IF goesOn THEN "ocr" ELSE "notAI"]
     /\ UNCHANGED <<lastNotificationTime, lastIndex, prevDispatchAt, lastDispatchAt>>

\* The end of analyzeScreenCapture, after recordAnalysis: shouldShowNotification,
\* canShowNotification and handleAnalysisResults up to its await of
\* showNotification.
NotifyDecision(i, analysis) ==
  LET p == pipelines[i]
      aiWindowInfo == detectAIWindow(p.title, << >>)
      notifyOutcomes ==
        { shouldShowNotification(aiWindowInfo, analysis, draw33, draw20) :
            draw33 \in BOOLEAN, draw20 \in BOOLEAN }
      shownOutcomes ==
        { handleAnalysisResults(analysis, r1, r2) : r1 \in RandomDraws, r2 \in RandomDraws }
  IN \E shouldNotify \in notifyOutcomes :
       LET dispatch == shouldNotify /\ canShowNotification
       IN \E shown \in (IF dispatch THEN shownOutcomes ELSE {"none"}) :
            /\ lastNotificationTime' = IF dispatch THEN DateNow ELSE lastNotificationTime
            /\ lastDispatchAt' = IF dispatch THEN DateNow ELSE lastDispatchAt
            /\ prevDispatchAt' = IF dispatch THEN lastDispatchAt ELSE prevDispatchAt
            /\ pipelines' = IF shown # "none"
                              THEN [pipelines EXCEPT ![i].stage = "notify",
                                                     ![i].analysis = analysis]
                              ELSE RemoveAt(pipelines, i)

\* recordAnalysis has rows to write (a usage row when a tool was detected,
\* an alert row when the risk is high or critical): it awaits the database.
HasRecords(analysis) ==
  analysis.aiToolDetected # "" \/ analysis.riskLevel \in {"high", "critical"}

recordAnalysisMutant(analysis, failure) ==
  [ usage |-> analysis.aiToolDetected # "" /\ failure # "usage",
    alert |-> analysis.riskLevel \in {"high", "critical"} /\ failure # "alert" ]

\* recordAnalysis: the rows it writes (ai_usage, alerts) when the insert
\* named by `failure` is rejected by the database ("none": both accepted).
\* A rejected ai_usage insert is caught at the end of recordAnalysis, past
\* the alert; a rejected alerts insert is caught in createAlert.
recordAnalysis(analysis, failure) ==
  LET usageTried == analysis.aiToolDetected # ""
      usageThrew == usageTried /\ failure = "usage"
      alertTried == ~usageThrew /\ analysis.riskLevel \in {"high", "critical"}
  IN [ usage |-> usageTried /\ ~usageThrew,
       alert |-> alertTried /\ failure # "alert" ]

caughtByMutant(failure) ==
  CASE failure = "capture" -> "captureScreen"
    [] failure \in {"ocr", "analyzer"} -> "analyzeScreenCapture"
    [] failure = "usage" -> "recordAnalysis"
    [] failure = "alert" -> "createAlert"
    [] OTHER -> "none"

\* The try block whose catch handles (logs) a failure thrown during a tick;
\* "none" when nothing failed.
caughtBy(failure) ==
  CASE failure = "capture" -> "captureScreen"
    [] failure \in {"ocr", "analyzer"} -> "analyzeScreenCapture"
    [] failure = "usage" -> "recordAnalysis"
    [] failure = "alert" -> "createAlert"
    [] failure = "notification" -> "handleAnalysisResults"
    [] OTHER -> "none"

\* No run of the pipeline has been observed.
NoRun ==
  [ failed |-> "none", caughtBy |-> "none", usage |-> FALSE, alert |-> FALSE,
    at |-> 0, shownAt |-> 0 ]

\* The runs suspended in showNotification.
Showing(ps) == { i \in DOMAIN ps : ps[i].stage = "notify" }

\* While the ticks are under observation (call.fn = "tick"), the outcome of
\* the pipeline's last run is noted in `call`: the analysis it made, what
\* failed and where it was caught, the rows written, the time, and the
\* last time a run handed a notification to showNotification.
NoteRun(analysis, failure, rows) ==
  call' = IF call.fn = "tick"
            THEN [ fn |-> "tick", args |-> analysis,
                   result |-> [ failed |-> failure, caughtBy |-> caughtBy(failure),
                                usage |-> rows.usage, alert |-> rows.alert,
                                at |-> DateNow,
                                shownAt |->
                                  IF Cardinality(Showing(pipelines'))
                                       > Cardinality(Showing(pipelines))
                                    THEN DateNow ELSE call.result.shownAt ] ]
            ELSE call

NoRows == [usage |-> FALSE, alert |-> FALSE]

\* OCR returns `text` to the pipeline suspended at pipelines[i]: an empty
\* text ends the run; otherwise analyzeContent runs and recordAnalysis starts.
OcrDone(i, text) ==
  /\ i \in DOMAIN pipelines
  /\ pipelines[i].stage = "ocr"
  /\ LET p == pipelines[i]
         analysis == analyzeContent(p.title, text, lastIndex)
     IN IF TextLen(text) = 0
          THEN /\ pipelines' = RemoveAt(pipelines, i)
               /\ UNCHANGED <<lastNotificationTime, lastIndex, prevDispatchAt,
                              lastDispatchAt, call>>
          ELSE /\ lastIndex' = LastIndexAfterAnalysis(p.title, text, lastIndex)
               /\ IF HasRecords(analysis)
                    THEN /\ pipelines' = [pipelines EXCEPT ![i].stage = "record",
                                                           ![i].analysis = analysis]
                         /\ UNCHANGED <<lastNotificationTime, prevDispatchAt,
                                        lastDispatchAt, call>>
                    ELSE /\ NotifyDecision(i, analysis)
                         /\ NoteRun(analysis, "none", recordAnalysis(analysis, "none"))
  /\ UNCHANGED <<now, lifeVars, captureVars, lastAnalysisTime, lastEntry, savedPrefs, sinkVars>>

\* The database has written recordAnalysis's rows for pipelines[i].
RecordDone(i) ==
  /\ i \in DOMAIN pipelines
  /\ pipelines[i].stage = "record"
  /\ NotifyDecision(i, pipelines[i].analysis)
  /\ NoteRun(pipelines[i].analysis, "none", recordAnalysis(pipelines[i].analysis, "none"))
  /\ UNCHANGED <<now, lifeVars, captureVars, lastAnalysisTime, lastIndex, lastEntry,
                 savedPrefs, sinkVars>>

\* showNotification has returned to handleAnalysisResults.
NotifyDone(i) ==
  /\ i \in DOMAIN pipelines
  /\ pipelines[i].stage = "notify"
  /\ pipelines' = RemoveAt(pipelines, i)
  /\ UNCHANGED <<now, lifeVars, captureVars, lastAnalysisTime, lastNotificationTime,
                 lastIndex, lastEntry, prevDispatchAt, lastDispatchAt, savedPrefs, sinkVars, call>>

\* triggerAnalysis(): captureSpecificWindow('') finds a window titled
\* `title` and the capture is handed to analyzeScreenCapture.
triggerAnalysis(title) ==
  /\ analyzeScreenCapture(title, "manual")
  /\ UNCHANGED <<now, lifeVars, captureVars, savedPrefs, sinkVars, call>>

AlreadyActiveMutant == FALSE

\* start()'s guard.
AlreadyActive == isActive

\* start() up to its await of startMonitoringSession()'s INSERT.
StartCall ==
  /\ IF AlreadyActive
       THEN UNCHANGED <<isActive, startCalls>>
       ELSE /\ startCalls < MaxStartCalls
            /\ isActive' = TRUE
            /\ startCalls' = startCalls + 1
  /\ UNCHANGED <<now, currentSessionId, sessions, stopCalls, captureVars, pipeVars,
                 savedPrefs, sinkVars, call>>

\* The INSERT has completed: startMonitoringSession() takes the new row's id
\* and start() goes on to startScreenCapture().
StartResume ==
  /\ startCalls > 0
  /\ Len(sessions) < MaxSessions
  /\ isCapturing \/ startCaptures < MaxStartCaptures
  /\ startCalls' = startCalls - 1
  /\ sessions' = Append(sessions, NULL)
  /\ currentSessionId' = Len(sessions) + 1
  /\ startCapture
  /\ UNCHANGED <<now, isActive, stopCalls, captureInterval, timers, timersCreated,
                 captures, pipeVars, savedPrefs, sinkVars, call>>

\* stop() up to its await of endMonitoringSession()'s UPDATE; with no
\* current session there is nothing to await and stop() is done.
StopCall ==
  /\ IF ~isActive
       THEN UNCHANGED <<isActive, stopCalls, isCapturing, captureCallback,
                        captureInterval, timers>>
       ELSE /\ isActive' = FALSE
            /\ stopCapture
            /\ IF currentSessionId = NULL
                 THEN UNCHANGED stopCalls
                 ELSE /\ Len(stopCalls) < MaxStopCalls
                      /\ stopCalls' = Append(stopCalls,
                                        [sid |-> currentSessionId, at |-> DateNow])
  /\ UNCHANGED <<now, currentSessionId, sessions, startCalls, timersCreated,
                 startCaptures, captures, pipeVars, savedPrefs, sinkVars, call>>

\* The UPDATE of stopCalls[k] has completed: the row has its end time and
\* endMonitoringSession() clears currentSessionId.
StopResume(k) ==
  /\ k \in DOMAIN stopCalls
  /\ sessions' = [sessions EXCEPT ![stopCalls[k].sid] = stopCalls[k].at]
  /\ currentSessionId' = NULL
  /\ stopCalls' = RemoveAt(stopCalls, k)
  /\ UNCHANGED <<now, isActive, startCalls, captureVars, pipeVars, savedPrefs, sinkVars, call>>

\* captureScreen() hands a capture of the window `title` to the callback, if
\* one is set; the callback is MonitoringService's and is not awaited.
Deliver(title) ==
  IF captureCallback
    THEN analyzeScreenCapture(title, "tick")
    ELSE UNCHANGED pipeVars

\* startCapture()'s initial captureScreen() has returned (with a capture of
\* `title`, or with none when `got` is false: no screen source, or an error
\* that captureScreen() logs): the interval timer is installed.
InitialCaptureDone(got, title) ==
  /\ startCaptures > 0
  /\ timersCreated < MaxTimers
  /\ IF got THEN Deliver(title) ELSE UNCHANGED pipeVars
  /\ startCaptures' = startCaptures - 1
  /\ timersCreated' = timersCreated + 1
  /\ captureInterval' = timersCreated + 1
  /\ timers' = [t \in ArmedTimers \cup {timersCreated + 1} |->
                  IF t \in ArmedTimers THEN timers[t]
                  ELSE now + captureIntervalMs]
  /\ UNCHANGED <<now, lifeVars, isCapturing, captureCallback, captures, savedPrefs, sinkVars, call>>

\* The interval timer t fires: its callback calls captureScreen().
TimerFire(t) ==
  /\ t \in ArmedTimers
  /\ captures < MaxCaptures
  /\ captures' = captures + 1
  /\ timers' = [timers EXCEPT ![t] = now + captureIntervalMs]
  /\ UNCHANGED <<now, lifeVars, isCapturing, captureCallback, captureInterval,
                 timersCreated, startCaptures, pipeVars, savedPrefs, sinkVars, call>>

\* A timer-driven captureScreen() has its capture (or none).
CaptureDone(got, title) ==
  /\ captures > 0
  /\ captures' = captures - 1
  /\ IF got THEN Deliver(title) ELSE UNCHANGED pipeVars
  /\ UNCHANGED <<now, lifeVars, isCapturing, captureCallback, captureInterval, timers,
                 timersCreated, startCaptures, savedPrefs, sinkVars, call>>

\* Time passes.  A timer that is due fires, and a capture in flight is
\* delivered, before the clock moves on; the clock moves on only while there
\* is room for the next tick's pipeline, so that no tick is lost to the bound
\* on the pipelines in flight.
AdvanceClock(step, steps) ==
  /\ now < ClockStart + step * steps
  /\ \A t \in ArmedTimers : timers[t] > now
  /\ captures = 0
  /\ Len(pipelines) < MaxPipelines
  /\ now' = now + step
  /\ UNCHANGED <<lifeVars, captureVars, pipeVars, savedPrefs, sinkVars, call>>

\* ------------------------------------------------------- specifications

\* The services as constructed, whatever the configuration store holds.
ServicesConstructed ==
  /\ now = ClockStart
  /\ isActive = FALSE
  /\ currentSessionId = NULL
  /\ lastAnalysisTime = 0
  /\ lastNotificationTime = 0
  /\ sessions = << >>
  /\ startCalls = 0
  /\ stopCalls = << >>
  /\ isCapturing = FALSE
  /\ captureCallback = FALSE
  /\ captureInterval = NULL
  /\ timers = [t \in {} |-> 0]
  /\ timersCreated = 0
  /\ startCaptures = 0
  /\ captures = 0
  /\ pipelines = << >>
  /\ lastIndex = NoLastIndex
  /\ lastEntry = NoEntry
  /\ prevDispatchAt = 0
  /\ lastDispatchAt = 0
  /\ syncQueue = << >>
  /\ alertQueue = << >>
  /\ syncs = << >>
  /\ delivered = << >>
  /\ recorded = 0
  /\ requested = 0
  /\ notificationQueue = << >>
  /\ isShowingNotification = FALSE
  /\ notificationWindow = NULL
  /\ windows = {}
  /\ loading = {}
  /\ closedHandlers = {}
  /\ timeouts = {}
  /\ displayed = << >>

\* The services as constructed over an empty configuration store.
Constructed == ServicesConstructed /\ savedPrefs = NothingSaved

\* No pure function is under study.
NoCall == [fn |-> "none", args |-> << >>, result |-> "none"]

Init == Constructed /\ call = NoCall

PipelineNext ==
  \/ \E i \in 1..MaxPipelines, text \in OcrTexts : OcrDone(i, text)
  \/ \E i \in 1..MaxPipelines : RecordDone(i)
  \/ \E i \in 1..MaxPipelines : NotifyDone(i)
  \/ \E title \in Titles : triggerAnalysis(title)
  \/ \E p \in PreferenceUpdates : savePreferences(p)

\* One monitoring run against the wall clock: start(), the capture timer
\* firing when due, the pipeline's steps, manual analyses and changes of the
\* preferences.
Next ==
  \/ StartCall
  \/ StartResume
  \/ \E got \in BOOLEAN, title \in Titles : InitialCaptureDone(got, title)
  \/ \E t \in ArmedTimers : timers[t] <= now /\ TimerFire(t)
  \/ \E got \in BOOLEAN, title \in Titles : CaptureDone(got, title)
  \/ PipelineNext
  \/ isActive /\ AdvanceClock(ClockStep, MaxClockSteps)

Spec == Init /\ [][Next]_vars

\* A monitoring run long enough for the notification throttle to expire:
\* start(), the capture timer's ticks through the pipeline, and changes of
\* the preferences.
ThrottleNext ==
  \/ StartCall
  \/ StartResume
  \/ \E got \in BOOLEAN, title \in Titles : InitialCaptureDone(got, title)
  \/ \E t \in ArmedTimers : timers[t] <= now /\ TimerFire(t)
  \/ \E got \in BOOLEAN, title \in Titles : CaptureDone(got, title)
  \/ \E i \in 1..MaxPipelines, text \in OcrTexts : OcrDone(i, text)
  \/ \E i \in 1..MaxPipelines : RecordDone(i)
  \/ \E i \in 1..MaxPipelines : NotifyDone(i)
  \/ \E p \in PreferenceUpdates : savePreferences(p)
  \/ isActive /\ AdvanceClock(captureIntervalMs, MaxThrottleSteps)

SpecThrottle == Init /\ [][ThrottleNext]_vars

\* ------------------------------------------------ failures during a tick

\* A timer-driven captureScreen() fails (getSources or getActiveWindowInfo's
\* caller throws): its own catch logs the error and nothing is delivered.
CaptureFails ==
  /\ captures > 0
  /\ captures' = captures - 1
  /\ UNCHANGED <<now, lifeVars, isCapturing, captureCallback, captureInterval, timers,
                 timersCreated, startCaptures, pipeVars, savedPrefs, sinkVars>>
  /\ NoteRun(NoAnalysis, "capture", NoRows)

\* extractText rethrows an OCR error to the pipeline suspended at
\* pipelines[i]: the catch of analyzeScreenCapture logs it and the run ends.
OcrFails(i) ==
  /\ i \in DOMAIN pipelines
  /\ pipelines[i].stage = "ocr"
  /\ pipelines' = RemoveAt(pipelines, i)
  /\ NoteRun(NoAnalysis, "ocr", NoRows)
  /\ UNCHANGED <<now, lifeVars, captureVars, lastAnalysisTime, lastNotificationTime,
                 lastIndex, lastEntry, prevDispatchAt, lastDispatchAt, savedPrefs, sinkVars>>

\* OCR returns `text` and analyzeContent throws: the catch of
\* analyzeScreenCapture logs it and the run ends.  The pattern tests made
\* before the throw may or may not have moved the patterns' lastIndex.
AnalyzerFails(i, text) ==
  /\ i \in DOMAIN pipelines
  /\ pipelines[i].stage = "ocr"
  /\ TextLen(text) > 0
  /\ pipelines' = RemoveAt(pipelines, i)
  /\ lastIndex' \in {lastIndex, LastIndexAfterAnalysis(pipelines[i].title, text, lastIndex)}
  /\ NoteRun(NoAnalysis, "analyzer", NoRows)
  /\ UNCHANGED <<now, lifeVars, captureVars, lastAnalysisTime, lastNotificationTime,
                 lastEntry, prevDispatchAt, lastDispatchAt, savedPrefs, sinkVars>>

\* The database rejects one of recordAnalysis's inserts for pipelines[i]
\* (`failure` is "usage" or "alert", an insert that is attempted): the error
\* is caught inside recordAnalysis or createAlert, recordAnalysis returns,
\* and analyzeScreenCapture goes on to the notification decision.
RecordFails(i, failure) ==
  /\ i \in DOMAIN pipelines
  /\ pipelines[i].stage = "record"
  /\ failure = "usage" => pipelines[i].analysis.aiToolDetected # ""
  /\ failure = "alert" => pipelines[i].analysis.riskLevel \in {"high", "critical"}
  /\ NotifyDecision(i, pipelines[i].analysis)
  /\ NoteRun(pipelines[i].analysis, failure, recordAnalysis(pipelines[i].analysis, failure))
  /\ UNCHANGED <<now, lifeVars, captureVars, lastAnalysisTime, lastIndex, lastEntry,
                 savedPrefs, sinkVars>>

\* showNotification rejects: the catch of handleAnalysisResults logs it and
\* the run ends.
NotifyFails(i) ==
  /\ i \in DOMAIN pipelines
  /\ pipelines[i].stage = "notify"
  /\ pipelines' = RemoveAt(pipelines, i)
  /\ NoteRun(pipelines[i].analysis, "notification", NoRows)
  /\ UNCHANGED <<now, lifeVars, captureVars, lastAnalysisTime, lastNotificationTime,
                 lastIndex, lastEntry, prevDispatchAt, lastDispatchAt, savedPrefs, sinkVars>>

\* Windows and texts of the ticks observed under failures.
FaultTitles == { <<"chrome", "claude.ai">>, <<"claude", "desktop">> }

FaultTexts == { <<"help">>, <<"sarah@company.com">>, <<"123-45-6789">> }

\* The ticks are under observation; none has run.
FaultsInit ==
  /\ Constructed
  /\ call = [fn |-> "tick", args |-> NoAnalysis, result |-> NoRun]

\* A monitoring run whose providers may fail: the capture provider, OCR,
\* the analyzer, the database and the notification sink.
FaultsNext ==
  \/ StartCall
  \/ StartResume
  \/ \E got \in BOOLEAN, title \in FaultTitles : InitialCaptureDone(got, title)
  \/ \E t \in ArmedTimers : timers[t] <= now /\ TimerFire(t)
  \/ \E title \in FaultTitles : CaptureDone(TRUE, title)
  \/ CaptureFails
  \/ \E i \in 1..MaxPipelines, text \in FaultTexts : OcrDone(i, text)
  \/ \E i \in 1..MaxPipelines : OcrFails(i)
  \/ \E i \in 1..MaxPipelines, text \in FaultTexts : AnalyzerFails(i, text)
  \/ \E i \in 1..MaxPipelines : RecordDone(i)
  \/ \E i \in 1..MaxPipelines, failure \in {"usage", "alert"} : RecordFails(i, failure)
  \/ \E i \in 1..MaxPipelines : NotifyDone(i)
  \/ \E i \in 1..MaxPipelines : NotifyFails(i)
  \/ isActive /\ AdvanceClock(captureIntervalMs, MaxFaultSteps)

SpecFaults == FaultsInit /\ [][FaultsNext]_vars

\* No start() or stop() call is suspended on the session store.
NoCallInProgress == startCalls = 0 /\ stopCalls = << >>

\* The lifecycle alone, at one clock reading: start() and stop() in every
\* interleaving, timers firing at any moment.
LifecycleNext ==
  \/ StartCall
  \/ StartResume
  \/ StopCall
  \/ \E k \in 1..MaxStopCalls : StopResume(k)
  \/ \E got \in BOOLEAN, title \in Titles : InitialCaptureDone(got, title)
  \/ \E t \in ArmedTimers : TimerFire(t)
  \/ \E got \in BOOLEAN, title \in Titles : CaptureDone(got, title)

SpecLifecycle == Init /\ [][LifecycleNext]_vars

\* The lifecycle with each start() or stop() call completing before the
\* next one begins.
SequentialNext ==
  \/ NoCallInProgress /\ StartCall
  \/ StartResume
  \/ NoCallInProgress /\ StopCall
  \/ \E k \in 1..MaxStopCalls : StopResume(k)
  \/ \E got \in BOOLEAN, title \in Titles : InitialCaptureDone(got, title)
  \/ \E t \in ArmedTimers : TimerFire(t)
  \/ \E got \in BOOLEAN, title \in Titles : CaptureDone(got, title)

SpecSequential == Init /\ [][SequentialNext]_vars

StartFailsMutant ==
  /\ startCalls > 0
  /\ startCalls' = startCalls - 1
  /\ call' = [fn |-> "start", args |-> << >>, result |-> "rejected"]
  /\ UNCHANGED <<now, isActive, currentSessionId, sessions, stopCalls, captureVars,
                 pipeVars, savedPrefs, sinkVars>>

\* The session store rejects startMonitoringSession()'s INSERT: the error is
\* logged and rethrown, start()'s catch resets isActive and rethrows, so the
\* call of start() rejects (noted in `call`).
StartFails ==
  /\ startCalls > 0
  /\ startCalls' = startCalls - 1
  /\ isActive' = FALSE
  /\ call' = [fn |-> "start", args |-> << >>, result |-> "rejected"]
  /\ UNCHANGED <<now, currentSessionId, sessions, stopCalls, captureVars, pipeVars,
                 savedPrefs, sinkVars>>

\* The session store rejects the UPDATE of stopCalls[k]:
\* endMonitoringSession() logs the error and returns, the row keeps no end
\* time, currentSessionId is not cleared and stop() resolves.
StopFails(k) ==
  /\ k \in DOMAIN stopCalls
  /\ stopCalls' = RemoveAt(stopCalls, k)
  /\ call' = [fn |-> "stop", args |-> << >>, result |-> "resolved"]
  /\ UNCHANGED <<now, isActive, currentSessionId, sessions, startCalls, captureVars,
                 pipeVars, savedPrefs, sinkVars>>

\* The sequential lifecycle over a session store that may reject a write.
SessionFaultsNext ==
  \/ SequentialNext
  \/ StartFails
  \/ \E k \in 1..MaxStopCalls : StopFails(k)

SpecSessionFaults == Init /\ [][SessionFaultsNext]_vars

\* The detected tools detectAITool can return ("" for null).
DetectedTools == {""} \cup { aiToolPatterns[i].tool : i \in DOMAIN aiToolPatterns }

\* The lists of types analyzeSensitiveData can return: any of the table's
\* types, in the table's order.
DetectedTypeLists ==
  { SelectSeq(sensitiveTypes, LAMBDA t : t \in chosen) :
      chosen \in SUBSET { sensitiveTypes[i] : i \in DOMAIN sensitiveTypes } }

\* calculateRiskLevel is about to be called as analyzeContent calls it, for
\* any detected tool and any list of detected types.
RiskInit ==
  /\ Constructed
  /\ call \in { [fn |-> "calculateRiskLevel",
                 args |-> [types |-> types, aiToolDetected |-> tool],
                 result |-> "pending"] :
                 types \in DetectedTypeLists, tool \in DetectedTools }

\* analyzeContent's call of calculateRiskLevel.
CalculateRiskLevel ==
  /\ call.fn = "calculateRiskLevel"
  /\ call.result = "pending"
  /\ call' = [call EXCEPT !.result =
                calculateRiskLevel(Len(call.args.types) > 0, call.args.types,
                                   call.args.aiToolDetected)]
  /\ UNCHANGED <<now, lifeVars, captureVars, pipeVars, savedPrefs, sinkVars>>

RiskNext == CalculateRiskLevel

SpecRisk == RiskInit /\ [][RiskNext]_vars

\* The titles of the captures that pass analyzeScreenCapture's window gate.
AIWindowTitles == { t \in Titles : PassesWindowGate(detectAIWindow(t, << >>)) }

\* The words of the OCR texts handed to the analyzer.
AnalyzerFragments ==
  { "help", "prose", "sk-48", "sk-46", "AKIA16", "upper20", "api_key=value",
    "bearer token", "123-45-6789", "customer" }

\* OCR texts of one or two words.
AnalyzerTexts ==
  { <<a>> : a \in AnalyzerFragments } \cup { <<a, b>> : a, b \in AnalyzerFragments }

\* analyzeScreenCapture on a capture of an AI window for which OCR returned
\* `text`, from detectAIWindow to shouldShowNotification: the window's
\* classification, analyzeContent's result on the shared analyzer, and the
\* values shouldShowNotification can return.
AnalyzeCapture(title, text) ==
  LET aiWindowInfo == detectAIWindow(title, << >>)
      analysis == analyzeContent(title, text, lastIndex)
  IN /\ call' = [ fn |-> "analyzeScreenCapture",
                  args |-> [windowName |-> title, text |-> text],
                  result |->
                    [ aiWindowInfo |-> aiWindowInfo,
                      analysis |-> analysis,
                      shouldNotify |->
                        { shouldShowNotification(aiWindowInfo, analysis, draw33, draw20) :
                            draw33 \in BOOLEAN, draw20 \in BOOLEAN } ] ]
     /\ lastIndex' = LastIndexAfterAnalysis(title, text, lastIndex)
     /\ UNCHANGED <<now, lifeVars, captureVars, lastAnalysisTime, lastNotificationTime,
                    pipelines, lastEntry, prevDispatchAt, lastDispatchAt, savedPrefs, sinkVars>>

AnalyzerNext ==
  \E title \in AIWindowTitles, text \in AnalyzerTexts : AnalyzeCapture(title, text)

\* The analyzer instance over any sequence of captures of AI windows.
SpecAnalyzer == Init /\ [][AnalyzerNext]_vars

\* Window titles and OCR texts for the analyzer's and the detector's
\* functions taken one call at a time.
FunctionTitles == Titles \cup { <<"chrome", "chatgpt">> }

FunctionFragments ==
  { "help", "how", "prose", "example", "step-by-step", "constraints", "excel",
    "code", "123-45-6789", "sarah@company.com", "customer" }

FunctionTexts ==
  { <<a>> : a \in FunctionFragments } \cup { <<a, b>> : a, b \in FunctionFragments }

\* The arguments analyzeContent hands to generateSuggestions and to
\* identifyLearningOpportunity for a capture of `windowName` with text
\* `text`, on a fresh analyzer.
AnalysisArgs(windowName, text) ==
  LET aiToolDetected == detectAITool(windowName, text)
  IN [ aiTool |-> aiToolDetected,
       sensitiveData |-> analyzeSensitiveData(text, NoLastIndex),
       promptQuality |->
         IF aiToolDetected # "" THEN analyzePromptQuality(text) ELSE "good",
       content |-> text ]

\* A call that has not returned has result << >>; one that returned v has <<v>>.
PendingCalls(fn, argss) ==
  { [fn |-> fn, args |-> args, result |-> << >>] : args \in argss }

\* Window titles and extracted texts detectAIWindow is called with: titles
\* that name a browser, a terminal, a desktop app, or several of them, and
\* texts with and without a platform URL or a CLI command.
DetectArgs ==
  { [windowTitle |-> w, extractedText |-> text] :
      w \in { <<"chrome", "news">>, <<"chrome", "claude">>, <<"chrome", "terminal", "gemini">>,
              <<"terminal">>, <<"terminal", "claude", "desktop">>, <<"claude", "desktop">>,
              <<"news">> },
      text \in { << >>, <<"help">>, <<"https://claude.ai">>, <<"gemini", "help">>,
                 <<"claude">>, <<"chatgpt", "claude", "help">> } }

\* One function of the analyzer or of the detector is about to be called:
\* the analyzer's as analyzeContent calls them, shouldShowNotification with
\* a window's classification, an analysis result and its two random draws.
FunctionsInit ==
  /\ Constructed
  /\ call \in
       PendingCalls("analyzePromptQuality",
                    { [text |-> text] : text \in FunctionTexts })
       \cup PendingCalls("generateSuggestions",
                    { AnalysisArgs(w, text) : w \in FunctionTitles, text \in FunctionTexts })
       \cup PendingCalls("identifyLearningOpportunity",
                    { AnalysisArgs(w, text) : w \in FunctionTitles, text \in FunctionTexts })
       \cup PendingCalls("shouldShowNotification",
                    { [ aiWindowInfo |-> detectAIWindow(w, << >>),
                        analysisResult |-> analyzeContent(v, text, NoLastIndex),
                        draw33 |-> draw33, draw20 |-> draw20 ] :
                        w \in FunctionTitles, v \in FunctionTitles,
                        text \in FunctionTexts,
                        draw33 \in BOOLEAN, draw20 \in BOOLEAN })
       \cup PendingCalls("detectAIWindow", DetectArgs)

Returns(fn, value) ==
  /\ call.fn = fn
  /\ call.result = << >>
  /\ call' = [call EXCEPT !.result = <<value>>]
  /\ UNCHANGED <<now, lifeVars, captureVars, pipeVars, savedPrefs, sinkVars>>

AnalyzePromptQuality ==
  /\ call.fn = "analyzePromptQuality"
  /\ Returns("analyzePromptQuality", analyzePromptQuality(call.args.text))

GenerateSuggestions ==
  /\ call.fn = "generateSuggestions"
  /\ Returns("generateSuggestions",
             generateSuggestions(call.args.aiTool, call.args.sensitiveData,
                                 call.args.promptQuality, call.args.content))

IdentifyLearningOpportunity ==
  /\ call.fn = "identifyLearningOpportunity"
  /\ Returns("identifyLearningOpportunity",
             identifyLearningOpportunity(call.args.aiTool, call.args.promptQuality,
                                         call.args.sensitiveData, call.args.content))

ShouldShowNotification ==
  /\ call.fn = "shouldShowNotification"
  /\ Returns("shouldShowNotification",
             shouldShowNotification(call.args.aiWindowInfo, call.args.analysisResult,
                                    call.args.draw33, call.args.draw20))

DetectAIWindow ==
  /\ call.fn = "detectAIWindow"
  /\ Returns("detectAIWindow",
             detectAIWindow(call.args.windowTitle, call.args.extractedText))

FunctionsNext ==
  \/ DetectAIWindow
  \/ AnalyzePromptQuality
  \/ GenerateSuggestions
  \/ IdentifyLearningOpportunity
  \/ ShouldShowNotification

SpecFunctions == FunctionsInit /\ [][FunctionsNext]_vars

\* OCR texts of the captures whose analysis is dispatched.
DispatchTexts ==
  { <<"help">>, <<"example">>, <<"prose">>, <<"constraints">>, <<"123-45-6789">>,
    <<"customer">>, <<"sarah@company.com">>, <<"help", "customer">> }

\* The analysis results analyzeScreenCapture can hand to
\* handleAnalysisResults: those of AI windows for which
\* shouldShowNotification can return true.
DispatchAnalyses ==
  { analyzeContent(w, text, NoLastIndex) :
      <<w, text>> \in
        { x \in (FunctionTitles \X DispatchTexts) :
            \E draw33 \in BOOLEAN, draw20 \in BOOLEAN :
              shouldShowNotification(detectAIWindow(x[1], << >>),
                                     analyzeContent(x[1], x[2], NoLastIndex),
                                     draw33, draw20) } }

\* What the settings screen saves about alerts, tips and their frequency.
TipPreferenceUpdates ==
  { [promptSuggestions |-> TRUE], [learningTips |-> TRUE], [frequency |-> "all"],
    [frequency |-> "occasional"], [criticalAlerts |-> FALSE],
    [securityWarnings |-> FALSE] }

\* handleAnalysisResults is about to be called with a dispatched analysis
\* and its two random draws; nothing has been saved in the preferences.
DispatchInit ==
  /\ Constructed
  /\ call \in PendingCalls("handleAnalysisResults",
                { [analysis |-> analysis, r1 |-> r1, r2 |-> r2] :
                    analysis \in DispatchAnalyses,
                    r1 \in RandomDraws, r2 \in RandomDraws })

\* analyzeScreenCapture's call of handleAnalysisResults, made when
\* canShowNotification allows it.
HandleAnalysisResults ==
  /\ call.fn = "handleAnalysisResults"
  /\ call.result = << >>
  /\ canShowNotification
  /\ lastNotificationTime' = DateNow
  /\ call' = [call EXCEPT !.result =
                <<showNotificationCalls(call.args.analysis, call.args.r1, call.args.r2)>>]
  /\ UNCHANGED <<now, lifeVars, captureVars, lastAnalysisTime, pipelines, lastIndex,
                 lastEntry, prevDispatchAt, lastDispatchAt, savedPrefs, sinkVars>>

\* The preferences are changed before the dispatch; then it runs.
DispatchNext ==
  \/ call.result = << >> /\ \E p \in TipPreferenceUpdates : savePreferences(p)
  \/ HandleAnalysisResults

SpecDispatch == DispatchInit /\ [][DispatchNext]_vars

\* What the configuration file can hold under 'notificationPreferences' when
\* the application starts: nothing, or an object with some of the fields.
StoredPreferences ==
  { NothingSaved,
    [promptSuggestions |-> TRUE],
    [enabled |-> FALSE, frequency |-> "all"],
    [learningTips |-> TRUE, criticalAlerts |-> FALSE, position |-> "top-right"] }

\* The partial preferences handed to savePreferences.
SavedUpdates ==
  PreferenceUpdates \cup TipPreferenceUpdates
    \cup { [promptSuggestions |-> FALSE, learningTips |-> FALSE],
           [frequency |-> "minimal", soundEnabled |-> TRUE] }

PrefsInit ==
  /\ ServicesConstructed
  /\ savedPrefs \in StoredPreferences
  /\ call = NoCall

\* savePreferences(preferences), with the preferences in effect before the
\* call kept for comparison.
SavePreferences(preferences) ==
  /\ savedPrefs' = Spread(getPreferences, preferences)
  /\ call' = [ fn |-> "savePreferences",
                args |-> [preferences |-> preferences, current |-> getPreferences],
                result |-> << >> ]
  /\ UNCHANGED <<now, lifeVars, captureVars, pipeVars, sinkVars>>

PrefsNext == \E p \in SavedUpdates : SavePreferences(p)

SpecPrefs == PrefsInit /\ [][PrefsNext]_vars

\* Texts handed to analyzeContent: sensitive spans of each redacted kind,
\* alone, repeated and next to a page of plain words.
SyncTexts ==
  LET SyncFragments ==
        { "help", "customer", "sarah@company.com", "123-45-6789",
          "4111-1111-1111-1111", "sk-48", "sk-46", "AKIA16", "page491",
          "page488", "page450" }
  IN { <<a>> : a \in SyncFragments } \cup { <<a, b>> : a, b \in SyncFragments }

\* analyzeContent is about to be called on a fresh analyzer.
SyncInit ==
  /\ Constructed
  /\ call \in PendingCalls("analyzeContent",
                 { [windowName |-> w, text |-> text] : w \in FaultTitles, text \in SyncTexts })

\* analyzeContent runs to its end: the analysis, then
\* syncToEnterpriseDashboard; what was queued for the dashboard is noted.
AnalyzeContentSync(enterprise) ==
  /\ call.fn = "analyzeContent"
  /\ call.result = << >>
  /\ LET result == analyzeContent(call.args.windowName, call.args.text, lastIndex)
     IN call' = [call EXCEPT !.result =
                   <<syncToEnterpriseDashboard(result, call.args.text, enterprise)>>]
  /\ lastIndex' = LastIndexAfterAnalysis(call.args.windowName, call.args.text, lastIndex)
  /\ UNCHANGED <<now, lifeVars, captureVars, lastAnalysisTime, lastNotificationTime,
                 pipelines, lastEntry, prevDispatchAt, lastDispatchAt, savedPrefs, sinkVars>>

SyncNext == \E enterprise \in BOOLEAN : AnalyzeContentSync(enterprise)

SpecSync == SyncInit /\ [][SyncNext]_vars

\* ----------------------------------------------------------------- claims

\* Rows of monitoring_sessions whose end_time is NULL.
OpenSessions == { i \in DOMAIN sessions : sessions[i] = NULL }

\* C1: with start() and stop() called one after another, at most one
\* session row is open at any time; between calls an active service has
\* exactly its current session open (a start() while active opened no other),
\* and a stopped service has none open: stop() gave the session its end time.
C1_OneOpenSession ==
  /\ Cardinality(OpenSessions) <= 1
  /\ NoCallInProgress /\ isActive => OpenSessions = {currentSessionId}
  /\ NoCallInProgress /\ ~isActive =>
       /\ OpenSessions = {}
       /\ currentSessionId = NULL

\* C1's case: a first session was started and stopped, and a second start()
\* has opened the second session.
C1_Witness ==
  /\ NoCallInProgress
  /\ isActive
  /\ Len(sessions) = 2
  /\ sessions[1] # NULL
  /\ currentSessionId = 2

\* C2: in every interleaving of start() and stop(), whenever no call is in
\* progress a capturing scheduler belongs to an active service, and a
\* service that is not active has left no session open.
C2_CapturingImpliesActive ==
  NoCallInProgress =>
    /\ isCapturing => isActive
    /\ ~isActive => OpenSessions = {}

\* C3: once stopCapture() has run and the scheduler is not capturing, no
\* capture timer is armed; and at most one timer is ever armed.
C3_NoTimerAfterStop ==
  /\ ~isCapturing => ArmedTimers = {}
  /\ Cardinality(ArmedTimers) <= 1

\* The pipelines in flight that a tick of the capture timer began.
TickPipelines == { i \in DOMAIN pipelines : pipelines[i].src = "tick" }

\* C4: ticks do not overlap: no tick's pipeline begins while an earlier
\* tick's pipeline is still pending, so at most one is in flight.
C4_TicksDoNotOverlap == Cardinality(TickPipelines) <= 1

\* C5: a capture whose window title the classifier, applied to the title
\* and the empty text, does not take for an AI window gets no OCR, analysis,
\* persistence or notification: every pipeline in flight, at whichever of
\* these stages, carries a title the classifier accepts.
C5_OnlyAIWindowsAnalysed ==
  \A i \in DOMAIN pipelines : detectAIWindow(pipelines[i].title, << >>).isAIWindow

\* C5's case: a tick has just been stopped at the window gate with nothing
\* in flight and nothing dispatched.
C5_Witness ==
  /\ lastEntry = [src |-> "tick", outcome |-> "notAI"]
  /\ pipelines = << >>
  /\ lastAnalysisTime = now
  /\ lastDispatchAt = 0

\* A step in which captureScreen() completes: a tick.
TickStep == captures' < captures \/ startCaptures' < startCaptures

\* C6: a tick less than 3 s after the last capture that passed the throttle
\* is skipped: it leaves lastAnalysisTime, lastNotificationTime, isActive,
\* the session and the pipelines in flight as they were; and the first
\* capture delivered after construction passes the throttle.
C6_ThrottledTickSkipped ==
  [][ TickStep =>
        /\ DateNow - lastAnalysisTime < analysisThrottleMs =>
             UNCHANGED <<lastAnalysisTime, lastNotificationTime, isActive,
                         currentSessionId, sessions, pipelines, lastIndex>>
        /\ lastAnalysisTime = 0 /\ lastEntry' # lastEntry =>
             /\ lastEntry'.outcome # "throttled"
             /\ lastAnalysisTime' = DateNow ]_vars

\* C6's case: a tick was throttled by a capture that passed the throttle
\* earlier on the clock.
C6_Witness ==
  /\ lastEntry = [src |-> "tick", outcome |-> "throttled"]
  /\ lastAnalysisTime # 0
  /\ lastAnalysisTime < now

\* C7: a manual analysis bypasses the window gate and the 3 s throttle: it
\* always goes on to OCR.
C7_ManualBypassesGates ==
  lastEntry.src = "manual" => lastEntry.outcome = "ocr"

\* A step in which the pipeline dispatches to handleAnalysisResults.
DispatchStep ==
  lastDispatchAt' # lastDispatchAt \/ prevDispatchAt' # prevDispatchAt

\* pipelines[i] is the pipeline that ends its run or goes on to show a
\* notification in this step.
DecidedPipeline(i) ==
  /\ i \in DOMAIN pipelines
  /\ pipelines[i].stage # "notify"
  /\ \/ pipelines' = RemoveAt(pipelines, i)
     \/ /\ DOMAIN pipelines' = DOMAIN pipelines
        /\ pipelines'[i].stage = "notify"

\* shouldShowNotification can return true for the pipeline p: for its stored
\* analysis, or for the analysis of some text OCR may return to it.
MayNotify(p) ==
  LET analyses ==
        IF p.stage = "record" THEN {p.analysis}
        ELSE { analyzeContent(p.title, text, lastIndex) :
                 text \in { t \in OcrTexts : TextLen(t) > 0 } }
  IN \E a \in analyses, draw33 \in BOOLEAN, draw20 \in BOOLEAN :
       shouldShowNotification(detectAIWindow(p.title, << >>), a, draw33, draw20)

C9_SilentDispatchKeepsTime ==
  [][ DispatchStep /\ Len(pipelines') < Len(pipelines) =>
        lastNotificationTime' = lastNotificationTime ]_vars

\* The detected types of a finished call of calculateRiskLevel, as a set.
RiskTypes == { call.args.types[i] : i \in DOMAIN call.args.types }

\* C10: calculateRiskLevel returns low when no tool is detected, whatever
\* the types; otherwise critical when the types include apiKey, password or
\* ssn; otherwise high when they include financialData, customerData or
\* creditCard; otherwise medium when any type is present; otherwise low.
C10_RiskTable ==
  call.fn = "calculateRiskLevel" /\ call.result # "pending" =>
    call.result =
      IF call.args.aiToolDetected = "" THEN "low"
      ELSE IF RiskTypes \cap {"apiKey", "password", "ssn"} # {} THEN "critical"
      ELSE IF RiskTypes \cap {"financialData", "customerData", "creditCard"} # {}
        THEN "high"
      ELSE IF RiskTypes # {} THEN "medium"
      ELSE "low"

\* C10's case: with a tool detected and both a critical-triggering and a
\* high-triggering type among the types, the result is critical.
C10_Witness ==
  /\ call.fn = "calculateRiskLevel"
  /\ call.result = "critical"
  /\ call.args.aiToolDetected = "claude"
  /\ call.args.types = << "ssn", "creditCard" >>

\* What the table's API-key patterns look for: an sk- key, an AWS access
\* key, a labelled key, secret or token, a Bearer token.
KeyMarks ==
  sensitivePatterns("apiKey") \cup sensitivePatterns("apiKeyGeneral")
    \cup sensitivePatterns("openaiKey") \cup {"akia16"}

\* C11: whenever the text holds something one of the table's API-key
\* patterns matches, the detected types include apiKey, and with an AI tool
\* detected the risk level is critical.
C11_AnyKeyPatternIsApiKey ==
  call.fn = "analyzeScreenCapture" /\ Includes(call.args.text, KeyMarks) =>
    /\ SeqHas(call.result.analysis.sensitiveDataTypes, {"apiKey"})
    /\ call.result.analysis.aiToolDetected # "" =>
         call.result.analysis.riskLevel = "critical"

\* C12: a capture of a browser window titled "Chrome - claude.ai" whose OCR
\* text is sk- followed by 46 alphanumerics is classified as an AI window of
\* platform Claude, with sensitive data detected, apiKey among the types,
\* the tool claude, the risk critical, a security and an alternative
\* suggestion, and shouldShowNotification returning true.
C12_EndToEndKeyOnClaude ==
  /\ call.fn = "analyzeScreenCapture"
  /\ call.args.windowName = <<"chrome", "claude.ai">>
  /\ call.args.text = <<"sk-46">>
  => /\ call.result.aiWindowInfo = [isAIWindow |-> TRUE, platform |-> "Claude"]
     /\ call.result.analysis.sensitiveDataDetected
     /\ SeqHas(call.result.analysis.sensitiveDataTypes, {"apiKey"})
     /\ call.result.analysis.aiToolDetected = "claude"
     /\ call.result.analysis.riskLevel = "critical"
     /\ \E i \in DOMAIN call.result.analysis.suggestions :
          call.result.analysis.suggestions[i].type = "security"
     /\ \E i \in DOMAIN call.result.analysis.suggestions :
          call.result.analysis.suggestions[i].type = "alternative"
     /\ call.result.shouldNotify = {TRUE}

\* C13: analysing the same capture twice in a row on the shared analyzer
\* gives the same detected types, risk level and suggestions both times.
C13_SameTextSameResult ==
  [][ /\ call.fn = "analyzeScreenCapture"
      /\ call'.fn = "analyzeScreenCapture"
      /\ call'.args = call.args
      => /\ call'.result.analysis.sensitiveDataTypes =
              call.result.analysis.sensitiveDataTypes
         /\ call'.result.analysis.riskLevel = call.result.analysis.riskLevel
         /\ call'.result.analysis.suggestions = call.result.analysis.suggestions
    ]_vars

\* C14: analyzePromptQuality is a priority cascade: excellent when an
\* excellent indicator matches; else good with two or more good indicators
\* and fair with exactly one, whether or not a poor indicator matches; else
\* poor when a poor indicator matches (a bare verb, a bare question word, at
\* most 10 characters); else fair above 50 characters and poor otherwise.
\* "help" is poor; a 60-character text without indicators is fair.
C14_PromptQualityCascade ==
  call.fn = "analyzePromptQuality" /\ call.result # << >> =>
    LET text == call.args.text
        quality == call.result[1]
        excellent ==
          \E i \in DOMAIN promptQualityExcellent : Includes(text, promptQualityExcellent[i])
        good ==
          Cardinality({i \in DOMAIN promptQualityGood : Includes(text, promptQualityGood[i])})
        bareWord ==
          /\ Len(text) = 1
          /\ text[1] \in {"help", "fix", "do", "make", "create",
                          "what", "how", "why", "when", "where"}
        poor == bareWord \/ TextLen(text) <= 10
    IN /\ excellent => quality = "excellent"
       /\ ~excellent /\ good >= 2 => quality = "good"
       /\ ~excellent /\ good = 1 => quality = "fair"
       /\ ~excellent /\ good = 0 /\ poor => quality = "poor"
       /\ ~excellent /\ good = 0 /\ ~poor =>
            quality = IF TextLen(text) > 50 THEN "fair" ELSE "poor"
       /\ text = <<"help">> => quality = "poor"
       /\ text = <<"prose">> => quality = "fair"

\* C14's case: a text of at most 10 characters (a poor indicator) that
\* matches exactly one good indicator is rated fair.
C14_Witness ==
  /\ call.fn = "analyzePromptQuality"
  /\ call.args.text = <<"example">>
  /\ call.result = <<"fair">>

\* The place of a suggestion type in the list.
SuggestionRank(type) ==
  CASE type = "security" -> 1
    [] type = "alternative" -> 2
    [] type = "quality" -> 3
    [] type = "efficiency" -> 4
    [] OTHER -> 5

\* C15: generateSuggestions returns one security (high) and one alternative
\* (medium) suggestion iff sensitive data was detected and a tool is
\* present, one quality suggestion iff the quality is poor (high) or fair
\* (medium), one efficiency suggestion (low) iff the text mentions
\* spreadsheet, excel or csv, nothing else, in the order security,
\* alternative, quality, efficiency.
C15_SuggestionList ==
  call.fn = "generateSuggestions" /\ call.result # << >> =>
    LET a == call.args
        s == call.result[1]
        Count(type) == Cardinality({i \in DOMAIN s : s[i].type = type})
        security == a.sensitiveData.detected /\ a.aiTool # ""
        efficiency == Includes(a.content, {"spreadsheet", "excel", "csv"})
    IN /\ Count("security") = IF security THEN 1 ELSE 0
       /\ Count("alternative") = IF security THEN 1 ELSE 0
       /\ Count("quality") = IF a.promptQuality \in {"poor", "fair"} THEN 1 ELSE 0
       /\ Count("efficiency") = IF efficiency THEN 1 ELSE 0
       /\ \A i \in DOMAIN s :
            s[i].priority =
              CASE s[i].type = "security" -> "high"
                [] s[i].type = "alternative" -> "medium"
                [] s[i].type = "quality" ->
                     IF a.promptQuality = "poor" THEN "high" ELSE "medium"
                [] s[i].type = "efficiency" -> "low"
                [] OTHER -> "none"
       /\ \A i, j \in DOMAIN s :
            i < j => SuggestionRank(s[i].type) < SuggestionRank(s[j].type)

\* C15's case: every guard holds and the list is security, alternative,
\* quality, efficiency.
C15_Witness ==
  /\ call.fn = "generateSuggestions"
  /\ call.result # << >>
  /\ Len(call.result[1]) = 4
  /\ call.result[1][3] = [type |-> "quality", priority |-> "high", improvedPrompt |-> TRUE]

\* C16: identifyLearningOpportunity returns the first of: security_risk if
\* sensitive data was detected and a tool is present; prompt_improvement if
\* the quality is poor; prompt_improvement if it is fair; tool_suggestion if
\* the text mentions code and the tool is chatgpt; otherwise none.
C16_FirstLearningOpportunity ==
  call.fn = "identifyLearningOpportunity" /\ call.result # << >> =>
    LET a == call.args
    IN call.result[1] =
         IF a.sensitiveData.detected /\ a.aiTool # "" THEN "security_risk"
         ELSE IF a.promptQuality = "poor" THEN "prompt_improvement"
         ELSE IF a.promptQuality = "fair" THEN "prompt_improvement"
         ELSE IF Includes(a.content, {"code"}) /\ a.aiTool = "chatgpt"
           THEN "tool_suggestion"
         ELSE "none"

\* C16's case: sensitive data with a tool and a poor prompt: the security
\* opportunity wins over the prompt improvement.
C16_Witness ==
  /\ call.fn = "identifyLearningOpportunity"
  /\ call.args.sensitiveData.detected
  /\ call.args.aiTool # ""
  /\ call.args.promptQuality = "poor"
  /\ call.result = <<"security_risk">>

\* C17: shouldShowNotification is false for a window that is not an AI
\* window; for an AI window it is true, whatever the draws, when the risk is
\* critical or high or sensitive data was detected; and false when the risk
\* is low or medium, no sensitive data was detected, the quality is not poor
\* and it is not fair with a learning opportunity.
C17_ShouldShowNotification ==
  call.fn = "shouldShowNotification" /\ call.result # << >> =>
    LET w == call.args.aiWindowInfo
        a == call.args.analysisResult
        shown == call.result[1]
    IN /\ ~w.isAIWindow => ~shown
       /\ w.isAIWindow /\ (a.riskLevel \in {"critical", "high"} \/ a.sensitiveDataDetected)
            => shown
       /\ /\ w.isAIWindow
          /\ a.riskLevel \in {"low", "medium"}
          /\ ~a.sensitiveDataDetected
          /\ a.promptQuality # "poor"
          /\ ~(a.promptQuality = "fair" /\ a.learningOpportunity # "none")
          => ~shown

\* C17's case: an AI window, sensitive data at medium risk in a poor prompt,
\* the draw for poor prompts failing: the notification is still to be shown.
C17_Witness ==
  /\ call.fn = "shouldShowNotification"
  /\ call.args.aiWindowInfo.isAIWindow
  /\ call.args.analysisResult.riskLevel = "medium"
  /\ call.args.analysisResult.sensitiveDataDetected
  /\ call.args.analysisResult.promptQuality = "poor"
  /\ ~call.args.draw33
  /\ call.result = <<TRUE>>

\* The analysis of a call of handleAnalysisResults carries a quality
\* suggestion with an improved prompt.
HasImprovedPrompt ==
  \E i \in DOMAIN call.args.analysis.suggestions :
    /\ call.args.analysis.suggestions[i].type = "quality"
    /\ call.args.analysis.suggestions[i].improvedPrompt

\* The guard of the prompt-improvement tip in a call of handleAnalysisResults.
PromptTipGuard ==
  /\ getPreferences.promptSuggestions
  /\ call.args.analysis.promptQuality = "poor"
  /\ call.args.r1 < getFrequencyMultiplier
  /\ HasImprovedPrompt

\* The guard of the learning tip: the draw is against half the multiplier.
LearningTipGuard ==
  /\ getPreferences.learningTips
  /\ call.args.analysis.learningOpportunity # "none"
  /\ 2 * call.args.r2 < getFrequencyMultiplier

\* C18: a call of handleAnalysisResults hands at most one notification to
\* showNotification: the critical alert if the risk is critical and
\* criticalAlerts is on; otherwise the security warning if the risk is high
\* and securityWarnings is on; otherwise the prompt tip if its guard holds;
\* otherwise the learning tip if its guard holds; otherwise none.
C18_OneNotificationByPriority ==
  call.fn = "handleAnalysisResults" /\ call.result # << >> =>
    LET a == call.args.analysis
        shown == call.result[1]
    IN /\ Len(shown) <= 1
       /\ shown =
            IF a.riskLevel = "critical" /\ getPreferences.criticalAlerts
              THEN <<"critical_alert">>
            ELSE IF a.riskLevel = "high" /\ getPreferences.securityWarnings
              THEN <<"security_warning">>
            ELSE IF PromptTipGuard THEN <<"prompt_tip">>
            ELSE IF LearningTipGuard THEN <<"learning_tip">>
            ELSE << >>

\* C18's case: the risk is critical and the learning tip's guard holds as
\* well; only the critical alert is shown.
C18_Witness ==
  /\ call.fn = "handleAnalysisResults"
  /\ call.args.analysis.riskLevel = "critical"
  /\ LearningTipGuard
  /\ call.result = << <<"critical_alert">> >>

\* C19: when neither the critical alert nor the security warning is shown,
\* the prompt tip is shown whenever promptSuggestions is on, the draw is
\* below the frequency multiplier and the analysis carries a quality
\* suggestion with an improved prompt, be the quality poor or fair.
C19_PromptTipForPoorAndFair ==
  /\ call.fn = "handleAnalysisResults"
  /\ call.result \notin { << >>, << <<"critical_alert">> >>, << <<"security_warning">> >> }
  /\ getPreferences.promptSuggestions
  /\ call.args.r1 < getFrequencyMultiplier
  /\ HasImprovedPrompt
  => call.result = << <<"prompt_tip">> >>

\* C20: with nothing saved in the preferences, a call of
\* handleAnalysisResults shows no notification other than the critical alert
\* and the security warning, whatever the draws.
C20_DefaultsShowNoTips ==
  call.fn = "handleAnalysisResults" /\ call.result # << >> /\ savedPrefs = NothingSaved =>
    \A i \in DOMAIN call.result[1] :
      call.result[1][i] \in {"critical_alert", "security_warning"}

\* C20's case: nothing saved, a poor prompt with a learning opportunity and
\* the lowest draws: nothing is shown.
C20_Witness ==
  /\ call.fn = "handleAnalysisResults"
  /\ savedPrefs = NothingSaved
  /\ call.args.analysis.promptQuality = "poor"
  /\ call.args.analysis.learningOpportunity # "none"
  /\ HasImprovedPrompt
  /\ call.args.r1 = 2
  /\ call.args.r2 = 2
  /\ call.result = << << >> >>

\* The documented default preferences.
DocumentedDefaults ==
  [ enabled |-> TRUE, criticalAlerts |-> TRUE, securityWarnings |-> TRUE,
    promptSuggestions |-> FALSE, learningTips |-> FALSE, frequency |-> "minimal",
    soundEnabled |-> FALSE, position |-> "bottom-right" ]

\* C21: getPreferences returns the documented defaults when nothing is
\* saved, and the default of every field the saved object lacks; after
\* savePreferences(p) it returns the preferences in effect before the call
\* with exactly the fields of p overridden, and saving p once more would
\* leave them as they are.
C21_PreferencesMerge ==
  /\ savedPrefs = NothingSaved => getPreferences = DocumentedDefaults
  /\ DOMAIN getPreferences = DOMAIN DocumentedDefaults
  /\ \A k \in DOMAIN DocumentedDefaults :
       getPreferences[k] = IF k \in DOMAIN savedPrefs THEN savedPrefs[k]
                           ELSE DocumentedDefaults[k]
  /\ call.fn = "savePreferences" =>
       /\ \A k \in DOMAIN DocumentedDefaults :
            getPreferences[k] =
              IF k \in DOMAIN call.args.preferences THEN call.args.preferences[k]
              ELSE call.args.current[k]
       /\ Spread(defaultSettings, Spread(getPreferences, call.args.preferences))
            = getPreferences

\* C21's case: the configuration file held an object without the enabled
\* field and savePreferences has overridden frequency alone: enabled is
\* still its default and promptSuggestions still the stored value.
C21_Witness ==
  /\ call.fn = "savePreferences"
  /\ call.args.preferences = [frequency |-> "occasional"]
  /\ call.args.current.frequency = "minimal"
  /\ getPreferences.frequency = "occasional"
  /\ getPreferences.promptSuggestions
  /\ getPreferences.enabled

FailureNoted == call'.fn = "tick" /\ call' # call /\ call'.result.failed # "none"

C24_FailedTickAbandoned ==
  [][ (FailureNoted /\ call'.result.failed \in {"capture", "ocr", "usage", "alert"}) =>
        /\ lastDispatchAt' = lastDispatchAt
        /\ lastNotificationTime' = lastNotificationTime
        /\ IF call'.result.failed = "capture"
             THEN pipelines' = pipelines
             ELSE Len(pipelines') < Len(pipelines) ]_vars

\* The security alerts queued for the dashboard by the call of analyzeContent.
QueuedAlerts ==
  IF call.fn = "analyzeContent" /\ call.result # << >>
    THEN call.result[1].alertQueue ELSE << >>

\* The fragment i of a sanitized content lies within the characters kept.
Kept(c, i) == TextLen(SubSeq(c.text, 1, i)) <= c.kept

\* C25: the sanitized content of a security alert contains no span that
\* matches the apiKey, openaiKey, ssn or creditCard pattern, however many
\* such spans the text had.
C25_NoRedactedSpanLeft ==
  \A k \in DOMAIN QueuedAlerts :
    LET c == QueuedAlerts[k].content
    IN \A i \in DOMAIN c.text :
         Kept(c, i) =>
           Marks(c.text[i]) \cap
             UNION { sensitivePatterns(t) : t \in {"apiKey", "openaiKey", "ssn", "creditCard"} }
             = {}

\* C26: a content longer than 500 characters after the replacements is cut
\* to its first 500 characters followed by "... [TRUNCATED]" (515 in all);
\* a content of at most 500 characters is returned whole, without marker.
C26_TruncatedAt500 ==
  \A k \in DOMAIN QueuedAlerts :
    LET c == QueuedAlerts[k].content
        length == TextLen(Redacted(call.args.text))
    IN /\ c.text = Redacted(call.args.text)
       /\ IF length > 500
            THEN /\ c.kept = 500
                 /\ c.marker = "... [TRUNCATED]"
                 /\ c.kept + FragLen(c.marker) = 515
            ELSE /\ c.kept = length
                 /\ c.marker = ""

\* A text of 500 characters that grows past 500 by the replacement of an
\* SSN (11 characters) by its token (14) is cut.
C26_Witness ==
  /\ QueuedAlerts # << >>
  /\ call.args.text = <<"page488", "123-45-6789">>
  /\ TextLen(call.args.text) = 500
  /\ QueuedAlerts[1].content.marker = "... [TRUNCATED]"

\* C27: no security alert queued for the dashboard carries a span of the
\* extracted text in which one of the sensitive patterns was found.
C27_NoRawSensitiveTextQueued ==
  \A k \in DOMAIN QueuedAlerts :
    LET c == QueuedAlerts[k].content
    IN \A i \in DOMAIN c.text :
         Kept(c, i) =>
           Marks(c.text[i]) \cap
             UNION { sensitivePatterns(sensitiveTypes[t]) : t \in DOMAIN sensitiveTypes }
             = {}

\* The title names one of the words; the text holds a CLI command (a
\* tool's name followed by white space).
TitleNames(title, words) == \E i \in DOMAIN title : Marks(title[i]) \cap words # {}

CliCommand(text) ==
  \E k \in 1..(Len(text) - 1) : text[k] \in {"claude", "gemini", "openai", "chatgpt"}

\* C28: detectAIWindow returns the result of the first of the browser, the
\* terminal and the desktop-app branch that succeeds, in that order, and
\* isAIWindow = false without platform when none does.  The browser branch
\* succeeds only on a title that names a browser, by a platform URL in
\* title + text or else by a bare platform name in the title; the terminal
\* branch only on a title that names a terminal with a CLI command in the
\* text; the desktop branch on the title alone.
C28_FirstBranchWins ==
  (call.fn = "detectAIWindow" /\ call.result # << >>) =>
    LET title == call.args.windowTitle
        text == call.args.extractedText
        result == call.result[1]
        browser == checkBrowserAIPlatform(title, text)
        terminal == checkTerminalAI(title, text)
        desktop == checkDesktopAIApp(title)
        hasUrl == \E i \in DOMAIN (title \o text) :
                    "https://claude.ai" \in Marks((title \o text)[i])
    IN /\ browser.isAIWindow => result = browser
       /\ (~browser.isAIWindow /\ terminal.isAIWindow) => result = terminal
       /\ (~browser.isAIWindow /\ ~terminal.isAIWindow /\ desktop.isAIWindow)
            => result = desktop
       /\ (~browser.isAIWindow /\ ~terminal.isAIWindow /\ ~desktop.isAIWindow)
            => result = [isAIWindow |-> FALSE, platform |-> ""]
       /\ browser.isAIWindow <=>
            /\ TitleNames(title, {"chrome", "firefox", "safari", "edge", "brave"})
            /\ hasUrl \/ TitleNames(title, {"chatgpt", "claude", "gemini", "perplexity"})
       /\ (browser.isAIWindow /\ hasUrl) => browser.platform = "Claude"
       /\ terminal.isAIWindow <=>
            /\ TitleNames(title, {"terminal", "iterm", "console", "powershell", "cmd"})
            /\ CliCommand(text)
       /\ desktop.isAIWindow <=>
            \E i, j \in DOMAIN title :
              /\ i < j
              /\ <<title[i], title[j]>> \in
                   { <<"claude", "desktop">>, <<"claude", "app">>, <<"chatgpt", "desktop">>,
                     <<"openai", "app">>, <<"gemini", "desktop">>, <<"gemini", "app">> }

\* A terminal whose title also matches a desktop app, with a CLI command in
\* the text: the terminal branch wins.
C28_Witness ==
  /\ call.fn = "detectAIWindow"
  /\ call.result # << >>
  /\ call.args.windowTitle = <<"terminal", "claude", "desktop">>
  /\ call.args.extractedText = <<"gemini", "help">>
  /\ call.result[1].platform = "Gemini CLI"

\* C29: when a run with a critical analysis reaches the notification
\* decision, notifications are enabled with criticalAlerts on and no
\* notification was handed to showNotification during the preceding 30 s,
\* the run hands the critical alert to showNotification in that step,
\* whatever dispatches that showed nothing came before.
C29_CriticalAlertShown ==
  [][ ( /\ call'.fn = "tick"
        /\ call' # call
        /\ call'.result.failed = "none"
        /\ call'.args.riskLevel = "critical"
        /\ getPreferences.enabled
        /\ getPreferences.criticalAlerts
        /\ \/ call.result.shownAt = 0
           \/ DateNow - call.result.shownAt >= notificationThrottleMs )
      => call'.result.shownAt = DateNow ]_vars

\* C30: a capture whose window detectAIWindow accepts as an AI window is
\* analysed with a detected tool (aiToolDetected is not null), so that
\* sensitive data found in it never gets the risk level low.
C30_AcceptedWindowHasTool ==
  (call.fn = "analyzeScreenCapture" /\ call.result.aiWindowInfo.isAIWindow) =>
    /\ call.result.analysis.aiToolDetected # ""
    /\ call.result.analysis.sensitiveDataDetected =>
         call.result.analysis.riskLevel # "low"

\* C31: the pipeline classifies a window by its title alone (the extracted
\* text handed to detectAIWindow is empty), so the terminal branch never
\* succeeds there: every capture under analysis has a title the browser
\* branch or the desktop-app branch accepts, and none is of a window whose
\* title names only a terminal, whatever CLI command OCR would find.
C31_TerminalNeverAnalysed ==
  \A i \in DOMAIN pipelines :
    /\ \/ checkBrowserAIPlatform(pipelines[i].title, << >>).isAIWindow
       \/ checkDesktopAIApp(pipelines[i].title).isAIWindow
    /\ pipelines[i].title # <<"terminal">>
    /\ \A text \in {<<"claude", "help">>, <<"gemini", "help">>} :
         detectAIWindow(pipelines[i].title, << >>)
           = IF checkBrowserAIPlatform(pipelines[i].title, text).isAIWindow
               THEN checkBrowserAIPlatform(pipelines[i].title, text)
               ELSE checkDesktopAIApp(pipelines[i].title)

\* A capture of the terminal window (the one title of Titles that is not an
\* AI window by title) was dropped at the window gate, though with a CLI
\* command in the text detectAIWindow would accept it.
C31_Witness ==
  /\ isActive
  /\ lastEntry = [src |-> "tick", outcome |-> "notAI"]
  /\ detectAIWindow(<<"terminal">>, <<"claude", "help">>).isAIWindow
  /\ \A t \in Titles \ {<<"terminal">>} : detectAIWindow(t, << >>).isAIWindow

\* C32: an analysis result in which no tool was detected has promptQuality
\* good, riskLevel low, no learning opportunity and no suggestion but, at
\* most, the one efficiency suggestion, whatever the text holds.
C32_NoToolNoAssessment ==
  (call.fn = "shouldShowNotification" /\ call.args.analysisResult.aiToolDetected = "") =>
    LET a == call.args.analysisResult
    IN /\ a.promptQuality = "good"
       /\ a.riskLevel = "low"
       /\ a.learningOpportunity = "none"
       /\ Len(a.suggestions) <= 1
       /\ \A i \in DOMAIN a.suggestions : a.suggestions[i].type = "efficiency"

\* An analysis without tool of a text with sensitive data and a spreadsheet
\* word, handed to shouldShowNotification: its one suggestion is the
\* efficiency one.
C32_Witness ==
  /\ call.fn = "shouldShowNotification"
  /\ call.result # << >>
  /\ call.args.analysisResult.aiToolDetected = ""
  /\ call.args.analysisResult.sensitiveDataDetected
  /\ Len(call.args.analysisResult.suggestions) = 1

\* C33: whenever no call of start() or stop() is in progress, getStatus()
\* reports active = true exactly when sessionId is not null, also after the
\* session store rejected a write during start() or stop().
C33_ActiveIffSession ==
  NoCallInProgress => (isActive <=> currentSessionId # NULL)

\* A step in which a call of start() ends without a session row: its INSERT
\* was rejected.
StartRejected == startCalls' = startCalls - 1 /\ sessions' = sessions

\* C34: when the INSERT of the session row fails, start() rejects, isActive
\* is false afterwards, the capture service has not been started, and a
\* later start() is not taken for already active.
C34_FailedStartLeavesInactive ==
  [][ StartRejected =>
        /\ call'.fn = "start" /\ call'.result = "rejected"
        /\ ~isActive'
        /\ ~AlreadyActive'
        /\ UNCHANGED <<currentSessionId, isCapturing, captureCallback, captureInterval,
                       timers, timersCreated, startCaptures>> ]_vars

\* A start() was rejected and a later start() has succeeded: the service is
\* active with a session and the capture running.
C34_Witness ==
  /\ call.fn = "start"
  /\ call.result = "rejected"
  /\ NoCallInProgress
  /\ isActive
  /\ currentSessionId # NULL
  /\ isCapturing


\* ------------------------------------------------- DashboardSyncService

MaxRecorded == 3
MaxSyncs == 2

ItemsOf(queue) == { queue[i] : i \in DOMAIN queue }

\* performSync() up to its await of fetch(): it returns at once without
\* enterprise settings or with both queues empty, and otherwise leaves a
\* request in flight whose payload is a copy of both queues.
performSync(settings, sq, aq) ==
  IF ~settings \/ (Len(sq) = 0 /\ Len(aq) = 0) THEN syncs
  ELSE Append(syncs, [usage_events |-> sq, security_alerts |-> aq])

\* syncImmediately(), which is called and not awaited.
syncImmediately(settings, sq, aq) ==
  IF Len(sq) = 0 /\ Len(aq) = 0 THEN syncs ELSE performSync(settings, sq, aq)

\* recordUsageEvent(event): `urgent` is riskLevel === 'high' ||
\* sensitiveDataDetected || apiKeyExposed.
recordUsageEvent(settings, urgent) ==
  /\ recorded < MaxRecorded
  /\ settings
  /\ recorded' = recorded + 1
  /\ syncQueue' = Append(syncQueue, recorded')
  /\ syncs' = IF urgent THEN syncImmediately(settings, syncQueue', alertQueue) ELSE syncs
  /\ Len(syncs') <= MaxSyncs
  /\ UNCHANGED <<now, lifeVars, captureVars, pipeVars, savedPrefs, alertQueue,
                 delivered, noteVars, call>>

\* recordSecurityAlert(alert): `urgent` is severity 'critical' or 'high'.
recordSecurityAlert(settings, urgent) ==
  /\ recorded < MaxRecorded
  /\ settings
  /\ recorded' = recorded + 1
  /\ alertQueue' = Append(alertQueue, recorded')
  /\ syncs' = IF urgent THEN syncImmediately(settings, syncQueue, alertQueue') ELSE syncs
  /\ Len(syncs') <= MaxSyncs
  /\ UNCHANGED <<now, lifeVars, captureVars, pipeVars, savedPrefs, syncQueue,
                 delivered, noteVars, call>>

\* The callback of startSyncScheduler()'s 5-minute interval.
SyncTick(settings) ==
  /\ syncs' = performSync(settings, syncQueue, alertQueue)
  /\ syncs' # syncs
  /\ Len(syncs') <= MaxSyncs
  /\ UNCHANGED <<now, lifeVars, captureVars, pipeVars, savedPrefs, syncQueue,
                 alertQueue, delivered, recorded, noteVars, call>>

\* performSync() resumed by a response that is ok: both queues are cleared.
SyncOk(k) ==
  /\ k \in DOMAIN syncs
  /\ syncs' = RemoveAt(syncs, k)
  /\ delivered' = Append(delivered, syncs[k])
  /\ syncQueue' = << >>
  /\ alertQueue' = << >>
  /\ UNCHANGED <<now, lifeVars, captureVars, pipeVars, savedPrefs, recorded,
                 noteVars, call>>

\* performSync() resumed by a rejected fetch or a response that is not ok:
\* the catch keeps the queues and trims the ones that grew too long.
SyncFails(k) ==
  /\ k \in DOMAIN syncs
  /\ syncs' = RemoveAt(syncs, k)
  /\ syncQueue' = IF Len(syncQueue) > 1000
                    THEN SubSeq(syncQueue, Len(syncQueue) - 499, Len(syncQueue))
                    ELSE syncQueue
  /\ alertQueue' = IF Len(alertQueue) > 100
                     THEN SubSeq(alertQueue, Len(alertQueue) - 49, Len(alertQueue))
                     ELSE alertQueue
  /\ UNCHANGED <<now, lifeVars, captureVars, pipeVars, savedPrefs, delivered,
                 recorded, noteVars, call>>

DashboardNext ==
  \/ \E urgent \in BOOLEAN : recordUsageEvent(TRUE, urgent)
  \/ \E urgent \in BOOLEAN : recordSecurityAlert(TRUE, urgent)
  \/ SyncTick(TRUE)
  \/ \E k \in 1..MaxSyncs : SyncOk(k)
  \/ \E k \in 1..MaxSyncs : SyncFails(k)

\* DashboardSyncService with enterprise mode configured and enabled.
SpecDashboard == Init /\ [][DashboardNext]_vars

Delivered(item) ==
  \E d \in DOMAIN delivered :
    item \in ItemsOf(delivered[d].usage_events) \cup ItemsOf(delivered[d].security_alerts)

\* C35: every usage event and security alert recorded so far is still in
\* its queue or was part of the payload of a sync the dashboard answered ok
\* (no queue is long enough here for the trimming after a failed sync); an
\* item queued while a request is in flight is not dropped by its success.
C35_QueuedItemsAreDelivered ==
  \A item \in 1..recorded :
    item \in ItemsOf(syncQueue) \cup ItemsOf(alertQueue) \/ Delivered(item)

\* C36: no usage event and no security alert is part of the payloads of two
\* syncs the dashboard answered ok.
C36_DeliveredOnce ==
  \A d, e \in DOMAIN delivered :
    d # e =>
      /\ ItemsOf(delivered[d].usage_events) \cap ItemsOf(delivered[e].usage_events) = {}
      /\ ItemsOf(delivered[d].security_alerts) \cap ItemsOf(delivered[e].security_alerts) = {}


\* ------------------------------------------------- NotificationService

MaxRequested == 3

\* options.duration: -1 (the critical alert), none (0 here: the security
\* warning) and 8000 (the learning tip).
Durations == {-1, 0, 8000}

\* BrowserWindow.close() on window w: its 'closed' event is queued when the
\* window carries the handler.
Closing(w, cbs) ==
  IF w \in closedHandlers THEN cbs \cup {[fn |-> "closed", of |-> w, ms |-> 0]} ELSE cbs

\* Observation: window w was closed by `by`; `closer` is the notification
\* whose timeout did it (0 otherwise).
NoteClosed(w, by, closer) ==
  [ i \in DOMAIN displayed |->
      IF displayed[i].id = w /\ displayed[i].closedBy = ""
        THEN [displayed[i] EXCEPT !.closedBy = by, !.closer = closer]
        ELSE displayed[i] ]

\* createNotificationWindow(options) up to its await of loadURL(): an
\* existing window is closed first, then the new window is created.
createNotificationWindow(options, cbs) ==
  /\ timeouts' = IF notificationWindow # NULL THEN Closing(notificationWindow, cbs) ELSE cbs
  /\ windows' = (windows \ {notificationWindow}) \cup {options.id}
  /\ notificationWindow' = options.id
  /\ loading' = loading \cup {options}
  /\ displayed' =
       Append(IF notificationWindow # NULL
                THEN NoteClosed(notificationWindow, "replaced", 0) ELSE displayed,
              [id |-> options.id, duration |-> options.duration, loaded |-> FALSE,
               closedBy |-> "", closer |-> 0])

\* processNotificationQueue() over the queue `queue`.
processNotificationQueue(queue, cbs) ==
  IF Len(queue) = 0
    THEN /\ isShowingNotification' = FALSE
         /\ notificationQueue' = queue
         /\ timeouts' = cbs
         /\ UNCHANGED <<notificationWindow, windows, loading, displayed>>
    ELSE /\ isShowingNotification' = TRUE
         /\ notificationQueue' = Tail(queue)
         /\ createNotificationWindow(Head(queue), cbs)

\* dismissCurrentNotification(), called on behalf of `by`.
dismissCurrentNotification(by, closer, cbs) ==
  IF notificationWindow # NULL
    THEN /\ timeouts' = Closing(notificationWindow, cbs)
         /\ windows' = windows \ {notificationWindow}
         /\ notificationWindow' = NULL
         /\ displayed' = NoteClosed(notificationWindow, by, closer)
    ELSE /\ timeouts' = cbs
         /\ UNCHANGED <<notificationWindow, windows, displayed>>

ShowNotificationMutant(duration) ==
  /\ requested < MaxRequested
  /\ requested' = requested + 1
  /\ processNotificationQueue(
       Append(notificationQueue, [id |-> requested', duration |-> duration]), timeouts)
  /\ UNCHANGED <<now, lifeVars, captureVars, pipeVars, savedPrefs, syncVars,
                 closedHandlers, call>>

\* showNotification(options)
ShowNotification(duration) ==
  /\ requested < MaxRequested
  /\ requested' = requested + 1
  /\ LET queue == Append(notificationQueue, [id |-> requested', duration |-> duration]) IN
       IF ~isShowingNotification
         THEN processNotificationQueue(queue, timeouts)
         ELSE /\ notificationQueue' = queue
              /\ UNCHANGED <<isShowingNotification, notificationWindow, windows,
                             loading, timeouts, displayed>>
  /\ UNCHANGED <<now, lifeVars, captureVars, pipeVars, savedPrefs, syncVars,
                 closedHandlers, call>>

\* createNotificationWindow(options) resumed by loadURL(): the auto-dismiss
\* timeout is armed unless the duration is -1, then the 'closed' handler is
\* registered on this.notificationWindow, which throws when that is null.
LoadOk(options) ==
  /\ options \in loading
  /\ loading' = loading \ {options}
  /\ timeouts' =
       IF options.duration # -1
         THEN timeouts \cup {[fn |-> "dismiss", of |-> options.id,
                              ms |-> IF options.duration = 0 THEN 10000 ELSE options.duration]}
         ELSE timeouts
  /\ closedHandlers' =
       IF notificationWindow # NULL THEN closedHandlers \cup {notificationWindow}
       ELSE closedHandlers
  /\ displayed' = [ i \in DOMAIN displayed |->
                    IF displayed[i].id = options.id /\ options.id \in windows
                      THEN [displayed[i] EXCEPT !.loaded = TRUE] ELSE displayed[i] ]
  /\ UNCHANGED <<now, lifeVars, captureVars, pipeVars, savedPrefs, syncVars, requested,
                 notificationQueue, isShowingNotification, notificationWindow,
                 windows, call>>

\* createNotificationWindow(options) resumed by a rejected loadURL(): the
\* rejection passes through processNotificationQueue() to its caller.
LoadFails(options) ==
  /\ options \in loading
  /\ loading' = loading \ {options}
  /\ UNCHANGED <<now, lifeVars, captureVars, pipeVars, savedPrefs, syncVars, requested,
                 notificationQueue, isShowingNotification, notificationWindow,
                 windows, closedHandlers, timeouts, displayed, call>>

\* The user's dismiss button or an action button of the window on screen
\* ('notification:dismiss', 'notification:action').
UserDismiss ==
  /\ notificationWindow # NULL
  /\ \E i \in DOMAIN displayed : displayed[i].id = notificationWindow /\ displayed[i].loaded
  /\ dismissCurrentNotification("user", 0, timeouts)
  /\ UNCHANGED <<now, lifeVars, captureVars, pipeVars, savedPrefs, syncVars, requested,
                 notificationQueue, isShowingNotification, loading, closedHandlers, call>>

\* An armed timeout fires, or a queued 'closed' event is handled.
Timeout(t) ==
  /\ t \in timeouts
  /\ CASE t.fn = "dismiss" ->
            /\ dismissCurrentNotification("timer", t.of, timeouts \ {t})
            /\ UNCHANGED <<notificationQueue, isShowingNotification, loading>>
       [] t.fn = "closed" ->
            /\ notificationWindow' = NULL
            /\ timeouts' = (timeouts \ {t}) \cup {[fn |-> "process", of |-> t.of, ms |-> 500]}
            /\ UNCHANGED <<notificationQueue, isShowingNotification, windows, loading,
                           displayed>>
       [] t.fn = "process" ->
            processNotificationQueue(notificationQueue, timeouts \ {t})
  /\ UNCHANGED <<now, lifeVars, captureVars, pipeVars, savedPrefs, syncVars, requested,
                 closedHandlers, call>>

Notifications ==
  { [id |-> id, duration |-> duration] : id \in 1..MaxRequested, duration \in Durations }

Timeouts ==
  { [fn |-> fn, of |-> id, ms |-> ms] :
      fn \in {"dismiss", "closed", "process"}, id \in 1..MaxRequested,
      ms \in {0, 500, 8000, 10000} }

NotifyNext ==
  \/ \E duration \in Durations : ShowNotification(duration)
  \/ \E options \in Notifications : LoadOk(options)
  \/ UserDismiss
  \/ \E t \in Timeouts : Timeout(t)

\* NotificationService with windows that always load.
SpecNotify == Init /\ [][NotifyNext]_vars

NotifyFaultsNext ==
  \/ NotifyNext
  \/ \E options \in Notifications : LoadFails(options)

\* NotificationService with windows whose content may fail to load.
SpecNotifyFaults == Init /\ [][NotifyFaultsNext]_vars


\* C37: notifications are displayed one at a time in the order of their
\* requests: at most one notification window exists, the windows were created
\* in request order with none skipped, every window but the last was closed
\* by the user or a timeout before the next one was created (never replaced
\* by it), and while a window exists later requests wait in the queue in
\* their order.
C37_OneAtATimeInOrder ==
  /\ Cardinality(windows) <= 1
  /\ \A i \in DOMAIN displayed : displayed[i].id = i
  /\ \A i \in 1..(Len(displayed) - 1) : displayed[i].closedBy \in {"user", "timer"}
  /\ \A k \in DOMAIN notificationQueue : notificationQueue[k].id = Len(displayed) + k
  /\ requested = Len(displayed) + Len(notificationQueue)
  /\ windows # {} => isShowingNotification

\* C37's case: the second notification is on screen after the user closed the
\* first, and the third, requested meanwhile, waits in the queue.
C37_Witness ==
  /\ Len(displayed) = 2
  /\ displayed[1].closedBy = "user"
  /\ displayed[2].loaded
  /\ windows = {2}
  /\ Len(notificationQueue) = 1
  /\ notificationQueue[1].id = 3

\* C38: a window shown with duration -1 is closed by nothing but a user
\* action, and a timeout closes no window but the one of the notification
\* that armed it.
C38_StaleTimerClosesNothing ==
  \A i \in DOMAIN displayed :
    /\ displayed[i].duration = -1 => displayed[i].closedBy \in {"", "user"}
    /\ displayed[i].closedBy = "timer" => displayed[i].closer = displayed[i].id

\* C39: while isShowingNotification is true and a notification waits in the
\* queue, something that ends in processNotificationQueue() is still to
\* come: a window being loaded, a window that carries the 'closed' handler,
\* a queued 'closed' event or an armed 500 ms timeout.
C39_QueueStillProcessed ==
  isShowingNotification /\ notificationQueue # << >> =>
    \/ loading # {}
    \/ notificationWindow # NULL /\ notificationWindow \in closedHandlers
    \/ \E t \in timeouts : t.fn \in {"closed", "process"}

====
